---- MODULE Spec2Model ----
(***************************************************************************)
(* TT Control: the DDS parameter exchange (WaveformGenerator) and the      *)
(* motor state machine (MotorController).                                  *)
(*                                                                         *)
(* Units.  Frequencies are in tenths of a hertz (50.0 Hz = 500), amplitude *)
(* scalars in 1/10000 (1.0 = 10000), times in milliseconds, IIR alpha in   *)
(* hundredths.  A uint32_t is represented by its signed 32-bit             *)
(* representative (the same residue modulo 2^32).                          *)
(***************************************************************************)
EXTENDS Integers, Sequences, FiniteSets, TLC

(***************************************************************************)
(* Scales of the fixed-point representation of the floats of the source.   *)
(***************************************************************************)
FreqScale == 10
AmpScale == 10000

(***************************************************************************)
(* Bounds of the model.                                                    *)
(***************************************************************************)
\* samples per buffer refill that are modelled (DMA_BUFFER_SIZE is 256)
BufLen == 2
\* control-core setter calls in one behaviour of the exchange
MaxCtlOps == 2
\* ticks of TickMs by which the clock advances in one behaviour
MaxTicks == 4

\* the clock advances in steps of TickMs milliseconds
TickMs == 500

(***************************************************************************)
(* types.h                                                                 *)
(***************************************************************************)
STATE_STANDBY == "Standby"
STATE_STOPPED == "Stopped"
STATE_STARTING == "Starting"
STATE_RUNNING == "Running"
STATE_STOPPING == "Stopping"
MotorState == {STATE_STANDBY, STATE_STOPPED, STATE_STARTING, STATE_RUNNING, STATE_STOPPING}

FILTER_NONE == 0
FILTER_IIR == 1
FILTER_FIR == 2
FIR_GENTLE == 0
FIR_MEDIUM == 1
BRAKE_OFF == 0
BRAKE_PULSE == 1
BRAKE_RAMP == 2
RAMP_LINEAR == 0
RAMP_SCURVE == 1
SPEED_33 == 0
SPEED_45 == 1
SPEED_78 == 2

(***************************************************************************)
(* WaveformGenerator: the parameter blocks.                                *)
(***************************************************************************)
\* the words of a WaveformState, in declaration order
Fields == <<"frequency", "phaseInc", "po0", "po1", "po2", "po3",
            "amplitude", "filterType", "iirAlpha", "firProfile">>
FieldSet == {Fields[i] : i \in 1..Len(Fields)}
\* the words the DDS core reads while synthesising (frequency is never read)
DdsFields == FieldSet \ {"frequency"}
Blocks == {"A", "B"}

\* (uint32_t)(freq * 85899.34592), freq in tenths of a hertz, freq >= 0
PhaseInc(f) == f * 8589 + (f * 934592) \div 1000000

\* the outcomes of (uint32_t)x for a negative double x: 0 (saturating
\* conversion) or the low 32 bits of the integer part (wrapping)
NegCastOutcomes == {"saturate", "wrap"}
PhaseIncU(f, ub) ==
    IF f >= 0 THEN PhaseInc(f)
    ELSE IF ub = "saturate" THEN 0 ELSE -PhaseInc(-f)

\* (uint32_t)((deg / 360.0) * 4294967296.0) for 0 <= deg < 360
PhaseOffsetWord(deg) ==
    IF deg < 180 THEN deg * 11930464 + (deg * 256) \div 360
    ELSE (deg - 360) * 11930464 + (deg * 256) \div 360 - 256

\* the same for any float of degrees: the conversion to uint32_t of a
\* negative double, or of one that is 2^32 or more, is undefined; it
\* saturates (0, 0xFFFFFFFF) or keeps the low 32 bits of the integer part
PhaseOffsetWordU(deg, ub) ==
    IF 0 <= deg /\ deg < 360 THEN PhaseOffsetWord(deg)
    ELSE IF ub = "saturate" THEN (IF deg < 0 THEN 0 ELSE -1)
    ELSE IF deg < 0 THEN -PhaseOffsetWord((-deg) % 360)
    ELSE PhaseOffsetWord(deg % 360)

\* what a float holds after a division by 0.0 (every comparison with it is false)
NaN == -1000000

\* setAmplitude's clamp to [0.0, 1.0]
ClampAmp(a) ==
    IF a = NaN THEN NaN ELSE IF a < 0 THEN 0 ELSE IF a > AmpScale THEN AmpScale ELSE a

\* the constructor's _stateA, copied to _stateB
InitBlock ==
    [k \in FieldSet |-> IF k = "frequency" THEN 50 * FreqScale ELSE 0]

\* the field stores of each setter, in program order
WritesSetFrequency(f) == << <<"frequency", f>>, <<"phaseInc", PhaseInc(f)>> >>
\* the same for a float of either sign: converting a negative double to
\* uint32_t is undefined; ub names the outcome of the build
WritesSetFrequencyU(f, ub) == << <<"frequency", f>>, <<"phaseInc", PhaseIncU(f, ub)>> >>
WritesSetAmplitude(a) == << <<"amplitude", ClampAmp(a)>> >>
WritesConfigure(s) ==
    << <<"filterType", s.filterType>>, <<"iirAlpha", s.iirAlpha>>,
       <<"firProfile", s.firProfile>>,
       <<"po0", PhaseOffsetWord(s.phaseOffset[1])>>,
       <<"po1", PhaseOffsetWord(s.phaseOffset[2])>>,
       <<"po2", PhaseOffsetWord(s.phaseOffset[3])>>,
       <<"po3", PhaseOffsetWord(s.phaseOffset[4])>> >>
WritesUpdateSettings(f, s) == WritesSetFrequency(f) \o WritesConfigure(s)
\* the same for phase offsets of any value
WritesUpdateSettingsU(f, s, ub) ==
    WritesSetFrequency(f)
      \o << <<"filterType", s.filterType>>, <<"iirAlpha", s.iirAlpha>>,
            <<"firProfile", s.firProfile>>,
            <<"po0", PhaseOffsetWordU(s.phaseOffset[1], ub)>>,
            <<"po1", PhaseOffsetWordU(s.phaseOffset[2], ub)>>,
            <<"po2", PhaseOffsetWordU(s.phaseOffset[3], ub)>>,
            <<"po3", PhaseOffsetWordU(s.phaseOffset[4], ub)>> >>

RECURSIVE ApplyWrites(_, _)
\* a block after all the stores of ws, in order
ApplyWrites(b, ws) ==
    IF ws = <<>> THEN b
    ELSE ApplyWrites([b EXCEPT ![Head(ws)[1]] = Head(ws)[2]], Tail(ws))

\* the control-side view of the generator that the motor controller drives:
\* the pending block, the publish flag and the enable flag
WfSetFrequency(w, f, ub) ==
    [w EXCEPT !.pend = ApplyWrites(@, WritesSetFrequencyU(f, ub)), !.swapPending = TRUE]
WfSetAmplitude(w, a) ==
    [w EXCEPT !.pend = ApplyWrites(@, WritesSetAmplitude(a)), !.swapPending = TRUE]
WfUpdateSettings(w, f, s) ==
    [w EXCEPT !.pend = ApplyWrites(@, WritesUpdateSettings(f, s)), !.swapPending = TRUE]
WfSetEnabled(w, e) == [w EXCEPT !.enabled = e]
WfGetFrequency(w) == w.pend["frequency"]

(***************************************************************************)
(* Settings: the fields of GlobalSettings / SpeedSettings the controller   *)
(* reads.  Float seconds are in tenths of a second, uint8_t seconds in     *)
(* whole seconds.                                                          *)
(***************************************************************************)
\* softStartDuration * 1000.0 and the like, for a float of seconds
MsOfTenths(d) == d * 100
\* startupKickDuration * 1000 and the like, for a uint8_t of seconds
MsOfSec(d) == d * 1000

\* Settings::setDefaults, per speed
DefaultSpeed(i) ==
    [frequency |-> IF i = SPEED_33 THEN 500 ELSE IF i = SPEED_45 THEN 675 ELSE 1135,
     phaseOffset |-> <<0, 90, 120, 240>>,
     softStartDuration |-> IF i = SPEED_78 THEN 15 ELSE 10,
     reducedAmplitude |-> IF i = SPEED_78 THEN 90 ELSE 80,
     amplitudeDelay |-> 5,
     startupKick |-> 1,
     startupKickDuration |-> 1,
     startupKickRampDuration |-> 10,
     filterType |-> FILTER_NONE,
     iirAlpha |-> 50,
     firProfile |-> FIR_MEDIUM,
     minFrequency |-> IF i = SPEED_33 THEN 400 ELSE IF i = SPEED_45 THEN 575 ELSE 1000,
     maxFrequency |-> IF i = SPEED_33 THEN 600 ELSE IF i = SPEED_45 THEN 775 ELSE 1300]

\* Settings::setDefaults, global part
DefaultCfg ==
    [maxAmplitude |-> 100, smoothSwitching |-> TRUE, switchRampDuration |-> 2,
     brakeMode |-> BRAKE_RAMP, brakeDuration |-> 20, brakePulseGap |-> 5,
     brakeStartFreq |-> 500, brakeStopFreq |-> 0,
     muteRelayLinkStandby |-> TRUE, muteRelayLinkStartStop |-> TRUE,
     powerOnRelayDelay |-> 2, autoStart |-> FALSE, autoBoot |-> FALSE,
     pitchResetOnStop |-> TRUE, rampType |-> RAMP_LINEAR,
     freqDependentAmplitude |-> 0, bootSpeed |-> 3, enable78rpm |-> TRUE,
     currentSpeed |-> SPEED_33, errorDisplayEnabled |-> TRUE,
     totalRuntime |-> 0, autoStandbyDelay |-> 0,
     pitchStepSize |-> 10,
     speeds |-> [i \in {SPEED_33, SPEED_45, SPEED_78} |-> DefaultSpeed(i)]]

\* the zero-initialised Settings::_data that the global constructors see
\* (settings.begin() runs later, in setup())
ZeroSpeed ==
    [frequency |-> 0, phaseOffset |-> <<0, 0, 0, 0>>, softStartDuration |-> 0,
     reducedAmplitude |-> 0, amplitudeDelay |-> 0, startupKick |-> 0,
     startupKickDuration |-> 0, startupKickRampDuration |-> 0,
     filterType |-> 0, iirAlpha |-> 0, firProfile |-> 0,
     minFrequency |-> 0, maxFrequency |-> 0]
ZeroCfg ==
    [maxAmplitude |-> 0, smoothSwitching |-> FALSE, switchRampDuration |-> 0,
     brakeMode |-> 0, brakeDuration |-> 0, brakePulseGap |-> 0,
     brakeStartFreq |-> 0, brakeStopFreq |-> 0,
     muteRelayLinkStandby |-> FALSE, muteRelayLinkStartStop |-> FALSE,
     powerOnRelayDelay |-> 0, autoStart |-> FALSE, autoBoot |-> FALSE,
     pitchResetOnStop |-> FALSE, rampType |-> 0,
     freqDependentAmplitude |-> 0, bootSpeed |-> 0, enable78rpm |-> FALSE,
     currentSpeed |-> SPEED_33, errorDisplayEnabled |-> FALSE,
     totalRuntime |-> 0, autoStandbyDelay |-> 0,
     pitchStepSize |-> 0,
     speeds |-> [i \in {SPEED_33, SPEED_45, SPEED_78} |-> ZeroSpeed]]

\* Settings::getCurrentSpeedSettings
getCurrentSpeedSettings(c) == c.speeds[c.currentSpeed]

(***************************************************************************)
(* Settings: load(), validate() and save().  These work on the image of    *)
(* GlobalSettings with the fields that validate() checks: frequencies in   *)
(* tenths of a hertz (NaN for a float that is not a number), the soft      *)
(* start in tenths of a second, phase offsets as float values in units of  *)
(* 2^-20 degree.                                                           *)
(***************************************************************************)
SETTINGS_SCHEMA_VERSION == 4
Deg == 1048576

\* the spacing of the float values around a magnitude a >= 0 (24 bit
\* significand, a in units of 2^-20)
Quantum(a) ==
    IF a < 16777216 THEN 1 ELSE IF a < 33554432 THEN 2
    ELSE IF a < 67108864 THEN 4 ELSE IF a < 134217728 THEN 8
    ELSE IF a < 268435456 THEN 16 ELSE IF a < 536870912 THEN 32
    ELSE IF a < 1073741824 THEN 64 ELSE 128

\* a >= 0 rounded to the nearest multiple of q, ties to the even multiple
RoundEven(a, q) ==
    LET lo == (a \div q) * q
        r == a - lo
    IN IF 2 * r < q THEN lo
       ELSE IF 2 * r > q THEN lo + q
       ELSE IF (lo \div q) % 2 = 0 THEN lo ELSE lo + q

\* the conversion of a double to float on a store to a float field
F32(x) == IF x >= 0 THEN RoundEven(x, Quantum(x)) ELSE -RoundEven(-x, Quantum(-x))

\* float comparisons: false when an operand is not a number
FLess(a, b) == a # NaN /\ b # NaN /\ a < b
FGreater(a, b) == FLess(b, a)

RECURSIVE phaseDown(_), phaseUp(_)
\* while (phaseOffset >= 360.0) phaseOffset -= 360.0
phaseDown(x) == IF x >= 360 * Deg THEN phaseDown(F32(x - 360 * Deg)) ELSE x
\* while (phaseOffset < 0.0) phaseOffset += 360.0
phaseUp(x) == IF x < 0 THEN phaseUp(F32(x + 360 * Deg)) ELSE x

\* validate(): one speed
validateSpeed(s) ==
    LET swap == FGreater(s.minFrequency, s.maxFrequency)
        lo == IF swap THEN s.maxFrequency ELSE s.minFrequency
        hi == IF swap THEN s.minFrequency ELSE s.maxFrequency
        f1 == IF FLess(s.frequency, lo) THEN lo ELSE s.frequency
        f2 == IF FGreater(f1, hi) THEN hi ELSE f1
    IN [s EXCEPT !.minFrequency = lo, !.maxFrequency = hi, !.frequency = f2,
                 !.softStartDuration = IF @ < 0 THEN 0 ELSE @,
                 !.phaseOffset = [p \in 1..4 |-> phaseUp(phaseDown(@[p]))]]

\* the image of a speed profile of the configuration
SpeedData(s) ==
    [frequency |-> s.frequency, minFrequency |-> s.minFrequency,
     maxFrequency |-> s.maxFrequency, softStartDuration |-> s.softStartDuration,
     phaseOffset |-> [p \in 1..4 |-> s.phaseOffset[p] * Deg]]

\* Settings::setDefaults
DefaultData ==
    [schemaVersion |-> SETTINGS_SCHEMA_VERSION, currentSpeed |-> SPEED_33,
     maxAmplitude |-> 100, totalRuntime |-> 0,
     speeds |-> [i \in {SPEED_33, SPEED_45, SPEED_78} |-> SpeedData(DefaultSpeed(i))]]

\* Settings::validate
validate(d) ==
    LET d1 == IF d.schemaVersion # SETTINGS_SCHEMA_VERSION THEN DefaultData ELSE d
    IN [d1 EXCEPT !.currentSpeed = IF @ > SPEED_78 THEN SPEED_33 ELSE @,
                  !.maxAmplitude = IF @ > 100 THEN 100 ELSE @,
                  !.speeds = [i \in DOMAIN @ |-> validateSpeed(@[i])]]

(***************************************************************************)
(* MotorController.  A world w is the state one call of the control core   *)
(* reads and writes: w.m the controller's members, w.pend / w.swapPending  *)
(* / w.enabled the generator as seen from the control core, w.pins the     *)
(* relay outputs (TRUE = driven to the active, unmuted level), w.pitch the *)
(* global currentPitchPercent, w.cfg the settings.                         *)
(***************************************************************************)
\* the members after static zero-initialisation of the global object
ZeroMotor ==
    [state |-> STATE_STANDBY, currentSpeedMode |-> SPEED_33,
     currentFreq |-> 0, targetFreq |-> 0, currentAmp |-> 0, targetAmp |-> 0,
     pitchRange |-> 0, stateStartTime |-> 0,
     isKicking |-> FALSE, kickEndTime |-> 0,
     ampReductionStartTime |-> 0, isReducedAmp |-> FALSE,
     brakePulseLastToggle |-> 0, brakePulseState |-> FALSE,
     relaysActive |-> FALSE, relayStageTime |-> 0, relayStage |-> 0,
     powerOnDelayActive |-> FALSE, powerOnTime |-> 0,
     isSpeedRamping |-> FALSE, rampStartFreq |-> 0, rampTargetFreq |-> 0,
     rampStartTime |-> 0, rampDuration |-> 0,
     isKickRamping |-> FALSE, kickRampStartFreq |-> 0,
     kickRampStartTime |-> 0, kickRampDuration |-> 0]

MutePins == {"A", "B", "C", "D"}
ZeroPins == [p \in MutePins \cup {"STANDBY"} |-> FALSE]

\* setRelays without the power-on delay
setRelaysNoGrace(w, active, t) ==
    LET w1 == [w EXCEPT !.m.powerOnDelayActive = FALSE]
        w2 == IF active
              THEN [w1 EXCEPT !.m.relaysActive = TRUE, !.m.relayStage = 0,
                              !.m.relayStageTime = t]
              ELSE [w1 EXCEPT !.m.relaysActive = FALSE, !.m.relayStage = 0,
                              !.pins = [p \in DOMAIN @ |->
                                          IF p \in MutePins THEN FALSE ELSE @[p]]]
    IN IF w.cfg.muteRelayLinkStandby /\ active
       THEN [w2 EXCEPT !.pins["STANDBY"] = TRUE]
       ELSE w2

\* MotorController::setRelays
setRelays(w, active, t) ==
    LET grace == w.m.powerOnDelayActive
                 /\ t - w.m.powerOnTime < MsOfSec(w.cfg.powerOnRelayDelay)
        act == active /\ ~grace
        w1 == [w EXCEPT !.m.powerOnDelayActive = @ /\ grace]
        w2 == IF act
              THEN [w1 EXCEPT !.m.relaysActive = TRUE, !.m.relayStage = 0,
                              !.m.relayStageTime = t]
              ELSE [w1 EXCEPT !.m.relaysActive = FALSE, !.m.relayStage = 0,
                              !.pins = [p \in DOMAIN @ |->
                                          IF p \in MutePins THEN FALSE ELSE @[p]]]
    IN IF w.cfg.muteRelayLinkStandby /\ act
       THEN [w2 EXCEPT !.pins["STANDBY"] = TRUE]
       ELSE w2

\* MotorController::applySettings
applySettings(w) ==
    LET s == getCurrentSpeedSettings(w.cfg)
        w1 == [w EXCEPT !.m.targetFreq = s.frequency, !.m.currentFreq = s.frequency]
    IN WfUpdateSettings(w1, s.frequency, s)

\* MotorController::applySettings with phase offsets of any value
applySettingsU(w, ub) ==
    LET s == getCurrentSpeedSettings(w.cfg)
        w1 == [w EXCEPT !.m.targetFreq = s.frequency, !.m.currentFreq = s.frequency]
    IN [w1 EXCEPT !.pend = ApplyWrites(@, WritesUpdateSettingsU(s.frequency, s, ub)),
                  !.swapPending = TRUE]

\* MotorController::resetPitch
resetPitch(w) == [w EXCEPT !.pitch = 0]

\* the guard of MotorController::start
startReturnsEarly(st) == st = STATE_RUNNING \/ st = STATE_STARTING

\* MotorController::start up to the unmuting of the relays
startPrepare(w, t) ==
    LET w1 == [w EXCEPT !.m.state = STATE_STARTING, !.m.stateStartTime = t]
        w2 == applySettings(w1)
        w3 == [w2 EXCEPT !.m.targetAmp = (w.cfg.maxAmplitude * AmpScale) \div 100,
                         !.m.currentAmp = 0, !.m.isReducedAmp = FALSE]
        s == getCurrentSpeedSettings(w.cfg)
        w4 == IF s.startupKick > 1
              THEN WfSetFrequency(
                     [w3 EXCEPT !.m.isKicking = TRUE,
                                !.m.kickEndTime = t + MsOfSec(s.startupKickDuration)],
                     w3.m.targetFreq * s.startupKick, "saturate")
              ELSE WfSetFrequency([w3 EXCEPT !.m.isKicking = FALSE],
                                  w3.m.targetFreq, "saturate")
    IN IF w.cfg.muteRelayLinkStartStop THEN setRelays(w4, TRUE, t) ELSE w4

\* MotorController::start
start(w, t) ==
    IF startReturnsEarly(w.m.state) THEN w
    ELSE WfSetAmplitude(WfSetEnabled(startPrepare(w, t), TRUE), 0)

\* the guard of MotorController::stop
stopReturnsEarly(st) == st = STATE_STOPPED \/ st = STATE_STANDBY

\* MotorController::stop
stop(w, t, ub) ==
    IF stopReturnsEarly(w.m.state) THEN w
    ELSE
    LET w1 == [w EXCEPT !.m.state = STATE_STOPPING, !.m.stateStartTime = t]
        w2 == IF w.cfg.brakeMode = BRAKE_PULSE
              THEN WfSetAmplitude(
                     WfSetFrequency(
                       [w1 EXCEPT !.m.brakePulseState = TRUE,
                                  !.m.brakePulseLastToggle = t],
                       -w1.m.targetFreq, ub),
                     w1.m.targetAmp)
              ELSE IF w.cfg.brakeMode = BRAKE_RAMP
              THEN WfSetFrequency(w1, w.cfg.brakeStartFreq, ub)
              ELSE w1
    IN IF w.cfg.pitchResetOnStop THEN resetPitch(w2) ELSE w2

\* abs() of a float
Abs(x) == IF x > 0 THEN x ELSE -x

\* the completion branch of MotorController::handleBraking
brakeComplete(w, t) ==
    LET w1 == WfSetEnabled([w EXCEPT !.m.state = STATE_STOPPED, !.m.currentAmp = 0],
                           FALSE)
        w2 == IF w.cfg.muteRelayLinkStartStop THEN setRelays(w1, FALSE, t) ELSE w1
    IN WfSetFrequency(w2, Abs(w2.m.targetFreq), "saturate")

\* MotorController::handleBraking
handleBraking(w, t) ==
    LET duration == MsOfTenths(w.cfg.brakeDuration)
        elapsed == t - w.m.stateStartTime
    IN IF elapsed >= duration THEN brakeComplete(w, t)
       ELSE IF w.cfg.brakeMode = BRAKE_RAMP
       THEN LET startF == w.cfg.brakeStartFreq
                stopF == w.cfg.brakeStopFreq
                currentF == startF - ((startF - stopF) * elapsed) \div duration
                amp == (w.m.targetAmp * (duration - elapsed)) \div duration
            IN WfSetAmplitude(
                 WfSetFrequency([w EXCEPT !.m.currentAmp = amp], currentF, "saturate"),
                 amp)
       ELSE IF w.cfg.brakeMode = BRAKE_PULSE
       THEN IF t - w.m.brakePulseLastToggle >= MsOfTenths(w.cfg.brakePulseGap)
            THEN WfSetAmplitude(
                   [w EXCEPT !.m.brakePulseLastToggle = t,
                             !.m.brakePulseState = ~@],
                   IF ~w.m.brakePulseState THEN w.m.targetAmp ELSE 0)
            ELSE w
       ELSE LET amp == (w.m.targetAmp * (duration - elapsed)) \div duration
            IN WfSetAmplitude([w EXCEPT !.m.currentAmp = amp], amp)

\* 0.5 * (1.0 - cos(PI * t)) for t = elapsed / duration < 1, in 1/10000,
\* at the quarter points of the ramp (the value of the quarter below t)
SCurve(elapsed, duration) ==
    LET q == (4 * elapsed) \div duration
    IN IF q = 0 THEN 0 ELSE IF q = 1 THEN 1464 ELSE IF q = 2 THEN 5000 ELSE 8536

\* MotorController::calculateSoftStartAmp
calculateSoftStartAmp(elapsed, duration, rampType, targetAmp) ==
    IF duration = 0 THEN NaN
    ELSE IF rampType = RAMP_SCURVE
    THEN (targetAmp * SCurve(elapsed, duration)) \div AmpScale
    ELSE (targetAmp * elapsed) \div duration

\* currentPitchPercent is in hundredths of a percent
PitchScale == 100

\* the frequency-dependent amplitude scale of update(), in 1/10000:
\* fdaRatio + (1.0 - fdaRatio) * freqRatio
fdaScaleFactor(w) ==
    LET fdaRatio == (w.cfg.freqDependentAmplitude * AmpScale) \div 100
        raw == IF w.m.targetFreq > 1
               THEN (WfGetFrequency(w) * AmpScale) \div w.m.targetFreq
               ELSE 0
        freqRatio == IF raw > AmpScale THEN AmpScale ELSE IF raw < 0 THEN 0 ELSE raw
    IN fdaRatio + ((AmpScale - fdaRatio) * freqRatio) \div AmpScale

\* update(), STATE_STARTING, 1: startup kick
updateKick(w, t) ==
    IF w.m.isKicking /\ t >= w.m.kickEndTime
    THEN LET s == getCurrentSpeedSettings(w.cfg)
             w1 == [w EXCEPT !.m.isKicking = FALSE]
         IN IF s.startupKickRampDuration > 0
            THEN [w1 EXCEPT !.m.kickRampDuration = MsOfTenths(s.startupKickRampDuration),
                            !.m.kickRampStartTime = t,
                            !.m.kickRampStartFreq = WfGetFrequency(w),
                            !.m.isKickRamping = TRUE]
            ELSE WfSetFrequency(w1, w1.m.targetFreq, "saturate")
    ELSE w

\* update(), STATE_STARTING, 2: kick ramp
updateKickRamp(w, t) ==
    IF w.m.isKickRamping
    THEN LET elapsed == t - w.m.kickRampStartTime
         IN IF elapsed >= w.m.kickRampDuration
            THEN WfSetFrequency([w EXCEPT !.m.isKickRamping = FALSE],
                                w.m.targetFreq, "saturate")
            ELSE WfSetFrequency(w,
                   w.m.kickRampStartFreq
                     - ((w.m.kickRampStartFreq - w.m.targetFreq) * elapsed)
                         \div w.m.kickRampDuration,
                   "saturate")
    ELSE IF ~w.m.isKicking /\ WfGetFrequency(w) # w.m.targetFreq
    THEN WfSetFrequency(w, w.m.targetFreq, "saturate")
    ELSE w

\* a soft start that ends only strictly after its duration
softStartDoneLate(elapsed, duration) == elapsed > duration

\* the test of update() that ends the soft start
softStartDone(elapsed, duration) == elapsed >= duration

\* update(), STATE_STARTING, 3: amplitude soft start
updateSoftStart(w, t) ==
    LET duration == MsOfTenths(getCurrentSpeedSettings(w.cfg).softStartDuration)
        elapsed == t - w.m.stateStartTime
        w1 == IF softStartDone(elapsed, duration)
              THEN [w EXCEPT !.m.state = STATE_RUNNING,
                             !.m.currentAmp = w.m.targetAmp,
                             !.m.ampReductionStartTime = t]
              ELSE [w EXCEPT !.m.currentAmp =
                      calculateSoftStartAmp(elapsed, duration, w.cfg.rampType,
                                            w.m.targetAmp)]
        w2 == IF w.cfg.freqDependentAmplitude > 0 /\ w1.m.currentAmp # NaN
              THEN [w1 EXCEPT !.m.currentAmp = (@ * fdaScaleFactor(w1)) \div AmpScale]
              ELSE w1
    IN WfSetAmplitude(w2, w2.m.currentAmp)

\* update(), STATE_RUNNING, 1: pitch control / frequency update
runningPitch(w, t) ==
    LET baseFreq == getCurrentSpeedSettings(w.cfg).frequency
        target == baseFreq + (baseFreq * w.pitch) \div (100 * PitchScale)
        w1 == [w EXCEPT !.m.targetFreq = target]
    IN IF w1.m.currentFreq # target
       THEN WfSetFrequency([w1 EXCEPT !.m.currentFreq = target], target, "saturate")
       ELSE w1

\* a reduction that does not wait for the delay
runningReduceAtOnce(w, t) ==
    LET s == getCurrentSpeedSettings(w.cfg)
    IN IF ~w.m.isReducedAmp
       THEN LET amp == (w.m.targetAmp * s.reducedAmplitude) \div 100
            IN WfSetAmplitude([w EXCEPT !.m.isReducedAmp = TRUE,
                                        !.m.currentAmp = amp], amp)
       ELSE w

\* update(), STATE_RUNNING, 2: reduced amplitude
runningReduce(w, t) ==
    LET s == getCurrentSpeedSettings(w.cfg)
    IN IF ~w.m.isReducedAmp
          /\ t - w.m.ampReductionStartTime >= MsOfSec(s.amplitudeDelay)
       THEN LET amp == (w.m.targetAmp * s.reducedAmplitude) \div 100
            IN WfSetAmplitude([w EXCEPT !.m.isReducedAmp = TRUE,
                                        !.m.currentAmp = amp], amp)
       ELSE w

\* update(), STATE_RUNNING, 3: speed switching ramp
runningRamp(w, t) ==
    IF w.m.isSpeedRamping
    THEN LET elapsed == t - w.m.rampStartTime
         IN IF elapsed >= w.m.rampDuration
            THEN WfSetFrequency([w EXCEPT !.m.isSpeedRamping = FALSE,
                                          !.m.currentFreq = w.m.rampTargetFreq],
                                w.m.rampTargetFreq, "saturate")
            ELSE LET currentF == w.m.rampStartFreq
                       + ((w.m.rampTargetFreq - w.m.rampStartFreq) * elapsed)
                           \div w.m.rampDuration
                 IN WfSetFrequency([w EXCEPT !.m.currentFreq = currentF],
                                   currentF, "saturate")
    ELSE w

\* update(), STATE_RUNNING
\* Settings::updateRuntime
updateRuntime(w, t) ==
    IF t - w.rt.lastRuntimeUpdate >= 1000
    THEN LET seconds == (t - w.rt.lastRuntimeUpdate) \div 1000
         IN [w EXCEPT !.rt.lastRuntimeUpdate = t,
                      !.rt.sessionRuntime = @ + seconds,
                      !.cfg.totalRuntime = @ + seconds]
    ELSE w

\* Settings::resetSessionRuntime
resetSessionRuntime(w) == [w EXCEPT !.rt.sessionRuntime = 0]

\* update(), STATE_RUNNING
updateRunning(w, t) ==
    updateRuntime(runningRamp(runningReduce(runningPitch(w, t), t), t), t)

\* the pin update() drives at a relay stage
stagePin(stage) ==
    IF stage = 1 THEN "A" ELSE IF stage = 2 THEN "B" ELSE IF stage = 3 THEN "C" ELSE "D"

\* relay staggering that does not wait between two stages
updateRelaysNoStagger(w, t) ==
    IF w.m.relaysActive /\ w.m.relayStage < 4
    THEN [w EXCEPT !.m.relayStageTime = t, !.m.relayStage = @ + 1,
                   !.pins[stagePin(w.m.relayStage + 1)] = TRUE]
    ELSE w

\* update(): relay staggering
updateRelays(w, t) ==
    IF w.m.relaysActive /\ w.m.relayStage < 4 /\ t - w.m.relayStageTime > 100
    THEN [w EXCEPT !.m.relayStageTime = t, !.m.relayStage = @ + 1,
                   !.pins[stagePin(w.m.relayStage + 1)] = TRUE]
    ELSE w

\* MotorController::update
update(w, t) ==
    LET w1 == IF w.m.state = STATE_STARTING
              THEN updateSoftStart(updateKickRamp(updateKick(w, t), t), t)
              ELSE IF w.m.state = STATE_RUNNING THEN updateRunning(w, t)
              ELSE IF w.m.state = STATE_STOPPING THEN handleBraking(w, t)
              ELSE w
    IN updateRelays(w1, t)

\* MotorController::isRunning
isRunning(w) == w.m.state = STATE_RUNNING \/ w.m.state = STATE_STARTING

\* MotorController::toggleStartStop
toggleStartStop(w, t, ub) == IF isRunning(w) THEN stop(w, t, ub) ELSE start(w, t)

\* MotorController::toggleStandby
toggleStandby(w, t, ub) ==
    IF w.m.state = STATE_STANDBY
    THEN setRelays([w EXCEPT !.m.state = STATE_STOPPED],
                   w.cfg.muteRelayLinkStandby /\ ~w.cfg.muteRelayLinkStartStop, t)
    ELSE LET w1 == [stop(w, t, ub) EXCEPT !.m.state = STATE_STANDBY]
             w2 == IF w.cfg.muteRelayLinkStandby THEN setRelays(w1, FALSE, t) ELSE w1
         IN resetSessionRuntime(w2)

\* MotorController::setSpeed
setSpeed(w, mode, t) ==
    IF w.m.currentSpeedMode = mode THEN w
    ELSE
    LET w1 == applySettings([w EXCEPT !.m.currentSpeedMode = mode])
        baseFreq == getCurrentSpeedSettings(w1.cfg).frequency
        newTarget == baseFreq + (baseFreq * w1.pitch) \div (100 * PitchScale)
        w2 == IF w1.m.state = STATE_RUNNING
              THEN IF w1.cfg.smoothSwitching
                   THEN [w1 EXCEPT !.m.isSpeedRamping = TRUE,
                                   !.m.rampStartFreq = WfGetFrequency(w1),
                                   !.m.rampTargetFreq = newTarget,
                                   !.m.rampStartTime = t,
                                   !.m.rampDuration = MsOfSec(w1.cfg.switchRampDuration)]
                   ELSE WfSetFrequency([w1 EXCEPT !.m.targetFreq = newTarget,
                                                  !.m.currentFreq = newTarget],
                                       newTarget, "saturate")
              ELSE [w1 EXCEPT !.m.targetFreq = newTarget]
    IN [w2 EXCEPT !.cfg.currentSpeed = mode]

\* MotorController::setPitch
setPitch(w, percent) == [w EXCEPT !.pitch = percent]

\* MotorController::togglePitchRange
togglePitchRange(w) ==
    [w EXCEPT !.m.pitchRange = IF @ + 10 > 50 THEN 10 ELSE @ + 10]

\* n / d rounded to the nearest integer, d > 0
Round(n, d) == (2 * n + d) \div (2 * d)

\* MotorController::adjustPitchFreq, deltaHz in 0.1 Hz; the pitch in Hz is
\* kept in units of 0.1 Hz / (100 * PitchScale)
adjustPitchFreq(w, deltaHz) ==
    LET baseFreq == getCurrentSpeedSettings(w.cfg).frequency
        newPitchHz == baseFreq * w.pitch + deltaHz * 100 * PitchScale
        maxPitchHz == baseFreq * w.m.pitchRange * PitchScale
        limited == IF newPitchHz > maxPitchHz THEN maxPitchHz
                   ELSE IF newPitchHz < -maxPitchHz THEN -maxPitchHz
                   ELSE newPitchHz
    IN [w EXCEPT !.pitch = Round(limited, baseFreq)]

\* MotorController::MotorController, run with the settings of w.cfg
construct(w, t) ==
    LET w1 == [w EXCEPT !.m.state = STATE_STANDBY]
        w2 == IF w.cfg.autoBoot
              THEN LET w3 == [w1 EXCEPT !.m.state = STATE_STOPPED]
                   IN IF w.cfg.autoStart THEN start(w3, t) ELSE w3
              ELSE w1
    IN [w2 EXCEPT !.m.currentSpeedMode = SPEED_33,
                  !.m.currentFreq = 50 * FreqScale, !.m.targetFreq = 50 * FreqScale,
                  !.m.currentAmp = 0, !.m.targetAmp = 0, !.m.pitchRange = 10,
                  !.m.isSpeedRamping = FALSE, !.m.isKickRamping = FALSE,
                  !.m.powerOnDelayActive = TRUE, !.m.powerOnTime = t]

\* MotorController::begin
begin(w, t) ==
    LET w1 == setRelays([w EXCEPT !.m.relaysActive = FALSE, !.m.relayStage = 0],
                        FALSE, t)
        w2 == [w1 EXCEPT !.m.currentSpeedMode =
                 IF w.cfg.bootSpeed <= 2 THEN w.cfg.bootSpeed ELSE w.cfg.currentSpeed]
        w3 == applySettings(w2)
    IN IF w.cfg.autoStart THEN start(w3, t) ELSE w3

(***************************************************************************)
(* State.                                                                  *)
(***************************************************************************)
VARIABLES
    \* the control core
    cfg,            \* Settings::_data
    now,            \* hal.getMillis()
    boot,           \* "constructed" until setup() has called motor.begin(), then
                    \* "loop" until loop() has called motor.update() at this
                    \* instant, "updated" after
    m,              \* the members of MotorController
    pins,           \* relay outputs
    pitch,          \* currentPitchPercent
    err,            \* ErrorHandler::_criticalError, UserInterface::_showingError
    rt,             \* Settings::_lastRuntimeUpdate, _sessionRuntime
    persist,        \* data: the image of Settings::_data that load(), validate()
                    \* and save() work on; file: /settings.bin; history: the
                    \* image at the last save() and what followed it
    gen,            \* _phaseAcc[0], _iirPrev, _firBuffer and the half of the
                    \* DMA buffers that fillBuffer wrote last
    sys,            \* systemInitialized, the positions of the two cores in
                    \* setup() and setup1(), and what they have done
    ui,             \* UserInterface::_lastInputTime
    dma,            \* the chained DMA channels and the refill bookkeeping of
                    \* WaveformGenerator::update
    \* WaveformGenerator, shared by the cores
    blk,            \* _stateA, _stateB
    activeState,    \* _activeState
    pendingState,   \* _pendingState
    enabled,        \* _enabled
    swapPending,    \* _swapPending
    \* the control core inside a setter of the generator
    ctl,
    \* the DDS core inside fillBuffer
    dds,
    \* history: the times of the calls that entered Starting and Stopping,
    \* the time spent in Running
    hist

vars == <<cfg, now, boot, m, pins, pitch, err, rt, persist, gen, sys, ui, dma, blk, activeState,
          pendingState, enabled, swapPending, ctl, dds, hist>>
motorVars == <<cfg, now, boot, m, pins, pitch, err, rt, persist, gen, sys, ui, dma, hist>>
ctlVars == <<ctl>>
ddsVars == <<dds>>

\* the world the control core works on
World ==
    [m |-> m, pend |-> blk[pendingState], swapPending |-> swapPending,
     enabled |-> enabled, pins |-> pins, pitch |-> pitch, cfg |-> cfg, rt |-> rt]

\* the variables after a call of the control core left the world w
SetWorld(w) ==
    /\ m' = w.m
    /\ rt' = w.rt
    /\ blk' = [blk EXCEPT ![pendingState] = w.pend]
    /\ swapPending' = w.swapPending
    /\ enabled' = w.enabled
    /\ pins' = w.pins
    /\ pitch' = w.pitch
    /\ cfg' = w.cfg

\* the history after a call moved the controller to world w
Hist(w) ==
    [tStart |-> IF w.m.state = STATE_STARTING /\ m.state # STATE_STARTING
                THEN now ELSE hist.tStart,
     tStop |-> IF w.m.state = STATE_STOPPING /\ m.state # STATE_STOPPING
               THEN now ELSE hist.tStop,
     ranMs |-> hist.ranMs]

(***************************************************************************)
(* The configurations explored.                                            *)
(***************************************************************************)
SoftStartChoices == {0, 10}
KickChoices == {2, 3}
KickDurationChoices == {1}
KickRampChoices == {0, 10}
KickSoftStartChoices == {0, 10, 20}
BrakeModeChoices == {BRAKE_OFF, BRAKE_PULSE, BRAKE_RAMP}
BrakeDurationChoices == {10}
FdaChoices == {0, 50}
SpeedChoices == {SPEED_33, SPEED_45}
PitchChoices == {0, 10 * PitchScale}

\* a speed profile of the defaults with the start-up parameters chosen
SpeedWith(i, ss, k, kd, kr) ==
    [DefaultSpeed(i) EXCEPT !.softStartDuration = ss, !.startupKick = k,
                            !.startupKickDuration = kd,
                            !.startupKickRampDuration = kr, !.amplitudeDelay = 1]

CfgSpace ==
    { [DefaultCfg EXCEPT
         !.autoBoot = ab, !.autoStart = as, !.brakeMode = bm,
         !.brakeDuration = bd, !.muteRelayLinkStartStop = ls,
         !.powerOnRelayDelay = 1,
         !.speeds = [i \in {SPEED_33, SPEED_45, SPEED_78} |->
                       SpeedWith(i, 10, 1, 1, 0)]] :
        ab \in BOOLEAN, as \in BOOLEAN, bm \in BrakeModeChoices,
        bd \in BrakeDurationChoices, ls \in BOOLEAN }

\* the configurations of the start-up kick
KickCfgSpace ==
    { [DefaultCfg EXCEPT
         !.brakeDuration = bd, !.powerOnRelayDelay = 1,
         !.speeds = [i \in {SPEED_33, SPEED_45, SPEED_78} |->
                       SpeedWith(i, ss, k, kd, kr)]] :
        bd \in BrakeDurationChoices, ss \in KickSoftStartChoices, k \in KickChoices,
        kd \in KickDurationChoices, kr \in KickRampChoices }

\* the configurations of the soft start: relays not linked, instant speed
\* switching, a kick of twice the frequency
StartCfgSpace ==
    { [DefaultCfg EXCEPT
         !.brakeDuration = bd, !.freqDependentAmplitude = fda,
         !.rampType = IF fda = 0 THEN RAMP_LINEAR ELSE RAMP_SCURVE,
         !.muteRelayLinkStandby = FALSE, !.muteRelayLinkStartStop = FALSE,
         !.smoothSwitching = FALSE,
         !.speeds = [i \in {SPEED_33, SPEED_45, SPEED_78} |->
                       SpeedWith(i, ss, 2, kd, 10)]] :
        bd \in BrakeDurationChoices, fda \in FdaChoices,
        ss \in SoftStartChoices, kd \in KickDurationChoices }

\* the configurations of the speed switch: smooth switching over 1 s, no
\* soft start, no kick, relays not linked
SwitchCfgSpace ==
    { [DefaultCfg EXCEPT
         !.brakeDuration = bd, !.switchRampDuration = 1,
         !.muteRelayLinkStandby = FALSE, !.muteRelayLinkStartStop = FALSE,
         !.speeds = [i \in {SPEED_33, SPEED_45, SPEED_78} |->
                       [DefaultSpeed(i) EXCEPT !.softStartDuration = 0]]] :
        bd \in BrakeDurationChoices }

\* the configurations of the pitch: 33 rpm, no soft start, no kick, relays
\* not linked, a pitch step of 1 %; the encoder moves 10
\* detents between two polls, adjustPitchFreq is called with 10 Hz, the
\* serial console sets a pitch of -60 %, 0 or 20 %
PitchDeltaChoices == {-10, 10}
DeltaHzChoices == {-100, 100}
WidePitchChoices == {-60 * PitchScale, 0, 20 * PitchScale}
MaxPitch == 20 * PitchScale
PitchCfgSpace ==
    { [DefaultCfg EXCEPT
         !.brakeDuration = bd, !.pitchStepSize = PitchScale, !.pitchResetOnStop = FALSE,
         !.muteRelayLinkStandby = FALSE, !.muteRelayLinkStartStop = FALSE,
         !.speeds = [i \in {SPEED_33, SPEED_45, SPEED_78} |->
                       [DefaultSpeed(i) EXCEPT !.softStartDuration = 0]]] :
        bd \in BrakeDurationChoices }

\* a pause of a minute and a second
IdleMs == 61 * 1000

\* the values of "Max Amp %" (the menu allows 0 .. 100)
MaxAmpChoices == {50, 100}

\* the values of the serial console: 30.0 and 70.0 Hz, phase offsets of
\* -90, 90 and 400 degrees for "phase1" and "phase2"
FreqCmdChoices == {300, 700}
PhaseCmdChannels == {1, 2}
PhaseCmdChoices == {-90, 90, 400}
\* the edits of the menu: bounds of 40.0 and 60.0 Hz in either order, phase
\* offsets of 90 and -90 degrees for phase 2 (the menu allows -360 .. 360)
MenuEdits ==
    { [lo |-> 400, hi |-> 600, ph |-> 90],
      [lo |-> 600, hi |-> 400, ph |-> 90],
      [lo |-> 400, hi |-> 600, ph |-> -90] }

\* the configurations of the relays: no soft start, no kick
PowerOnRelayDelayChoices == {0, 1}
RelayCfgSpace ==
    { [DefaultCfg EXCEPT
         !.brakeDuration = bd, !.powerOnRelayDelay = pd,
         !.muteRelayLinkStartStop = ls,
         !.speeds = [i \in {SPEED_33, SPEED_45, SPEED_78} |->
                       SpeedWith(i, 0, 1, 1, 0)]] :
        bd \in BrakeDurationChoices, pd \in PowerOnRelayDelayChoices,
        ls \in BOOLEAN }

\* the configurations of the error reports: with and without the error
\* screen, no power-on delay
ErrorCfgSpace ==
    { [DefaultCfg EXCEPT
         !.brakeDuration = bd, !.powerOnRelayDelay = 0,
         !.errorDisplayEnabled = ed,
         !.speeds = [i \in {SPEED_33, SPEED_45, SPEED_78} |->
                       SpeedWith(i, 0, 1, 1, 0)]] :
        bd \in BrakeDurationChoices, ed \in BOOLEAN }

\* the configurations of the amplitude reduction: no soft start, no kick,
\* instant speed switching, relays not linked, a reduction to 50 % at 45 rpm
AmplitudeDelayChoices == {0, 1}
ReduceCfgSpace ==
    { [DefaultCfg EXCEPT
         !.brakeDuration = bd, !.smoothSwitching = FALSE,
         !.muteRelayLinkStandby = FALSE, !.muteRelayLinkStartStop = FALSE,
         !.speeds = [i \in {SPEED_33, SPEED_45, SPEED_78} |->
                       [DefaultSpeed(i) EXCEPT
                          !.softStartDuration = 0, !.amplitudeDelay = ad,
                          !.reducedAmplitude = IF i = SPEED_45 THEN 50 ELSE @]]] :
        bd \in BrakeDurationChoices, ad \in AmplitudeDelayChoices }

(***************************************************************************)
(* Init: the global constructors have run (WaveformGenerator, then         *)
(* MotorController, both before setup()), and settings.begin() has loaded  *)
(* the configuration.                                                      *)
(***************************************************************************)
ConstructedWorld ==
    construct([m |-> ZeroMotor, pend |-> InitBlock, swapPending |-> FALSE,
               enabled |-> FALSE, pins |-> ZeroPins, pitch |-> 0, cfg |-> ZeroCfg,
               rt |-> [lastRuntimeUpdate |-> 0, sessionRuntime |-> 0]], 0)

\* the control core outside any setter: ws the stores still to do, all the
\* stores of the call, ptr the register holding _pendingState, left the
\* calls still to make, lastW the last value stored to each field
CtlIdle == [pc |-> "idle", ws |-> <<>>, all |-> <<>>, ptr |-> "B", left |-> MaxCtlOps,
            lastW |-> InitBlock]
\* the DDS core outside fillBuffer: buf the parameters of the samples of the
\* refill in progress or last completed
DdsIdle == [pc |-> "idle", i |-> 0, temp |-> "A", buf |-> <<>>]

\* WaveformGenerator::begin: the accumulator and the filters cleared; no
\* half of the DMA buffers refilled yet
GenIdle ==
    [phaseAcc |-> 0,
     iirPrev |-> [ch \in 0..3 |-> 0],
     firBuffer |-> [ch \in 0..3 |-> [i \in 0..7 |-> 0]],
     samples |-> <<>>, slice0 |-> <<>>, slice1 |-> <<>>,
     filled |-> "none", fills |-> 0]

\* the cores at the start of setup() and setup1()
SysReset ==
    [systemInitialized |-> FALSE, core0 |-> "settings", core1 |-> "spin",
     loaded |-> FALSE, motorBegun |-> FALSE, waveformBegun |-> FALSE]

\* UserInterface::UserInterface
UiReset == [lastInputTime |-> 0]

\* the DMA channels before WaveformGenerator::begin: none started (busy: the
\* half the running channels read, -1 none), no half refilled by update()
\* yet, fillBuffer not running (writing: the half it rewrites, -1 none), no
\* refill of update() counted, both halves of the two buffers empty
DmaReset ==
    [busy |-> -1, lastFilledBuffer |-> -1, writing |-> -1, refills |-> 0,
     half |-> [h \in {0, 1} |-> <<>>]]

\* no settings file, the defaults in memory
NoFile == [present |-> FALSE, image |-> DefaultData]
DefaultPersist ==
    [data |-> DefaultData, file |-> NoFile, saved |-> DefaultData, trip |-> "none",
     preset |-> NoFile]

InitAll(C, P) ==
    /\ cfg \in C
    /\ persist \in P
    /\ gen = GenIdle
    /\ sys = SysReset
    /\ ui = UiReset
    /\ dma = DmaReset
    /\ now = 0
    /\ boot = "constructed"
    /\ m = ConstructedWorld.m
    /\ pins = ConstructedWorld.pins
    /\ pitch = ConstructedWorld.pitch
    /\ err = [criticalError |-> FALSE, showingError |-> FALSE]
    /\ rt = ConstructedWorld.rt
    /\ blk = [b \in Blocks |-> ConstructedWorld.pend]
    /\ activeState = "A"
    /\ pendingState = "B"
    /\ enabled = ConstructedWorld.enabled
    /\ swapPending = ConstructedWorld.swapPending
    /\ ctl = CtlIdle
    /\ dds = DdsIdle
    /\ hist = [tStart |-> 0, tStop |-> 0, ranMs |-> 0]

InitWith(C) == InitAll(C, {DefaultPersist})

(***************************************************************************)
(* The control core: setup() and loop().                                   *)
(***************************************************************************)
\* a call of the control core that leaves the world w
Call(w) ==
    /\ SetWorld(w)
    /\ hist' = Hist(w)
    /\ UNCHANGED <<now, boot, err, persist, gen, sys, activeState, pendingState, ctl, dds, ui, dma>>

\* setup(): motor.begin()
Begin ==
    /\ boot = "constructed"
    /\ boot' = "loop"
    /\ SetWorld(begin(World, now))
    /\ hist' = Hist(begin(World, now))
    /\ UNCHANGED <<now, err, persist, gen, sys, activeState, pendingState, ctl, dds, ui, dma>>

\* setup() has returned
Booted == boot # "constructed"

\* loop(): motor.update()
Update ==
    /\ Booted
    /\ SetWorld(update(World, now))
    /\ hist' = Hist(update(World, now))
    /\ boot' = "updated"
    /\ UNCHANGED <<now, err, persist, gen, sys, activeState, pendingState, ctl, dds, ui, dma>>

\* handleSerialCommands: "start"
Start ==
    /\ Booted
    /\ Call(start(World, now))

\* handleSerialCommands: "stop"
Stop ==
    /\ Booted
    /\ \E ub \in NegCastOutcomes : Call(stop(World, now, ub))

\* UserInterface::handleInput: motor.toggleStartStop() when not in standby
ToggleStartStop ==
    /\ Booted
    /\ m.state # STATE_STANDBY
    /\ \E ub \in NegCastOutcomes :
         Call(toggleStartStop(World, now, ub))

\* handleSerialCommands "t", UserInterface: motor.toggleStandby()
ToggleStandby ==
    /\ Booted
    /\ \E ub \in NegCastOutcomes :
         Call(toggleStandby(World, now, ub))

\* handleSerialCommands: "speed N"
SetSpeed ==
    /\ Booted
    /\ \E mode \in SpeedChoices : Call(setSpeed(World, mode, now))

\* handleSerialCommands: "set pitch v", v in S
SetPitchIn(S) ==
    /\ Booted
    /\ \E percent \in S : Call(setPitch(World, percent))

SetPitch == SetPitchIn(PitchChoices)

\* handleSerialCommands "p", UserInterface::handleInput (long press)
ResetPitch ==
    /\ Booted
    /\ Call(resetPitch(World))

\* UserInterface::handleInput: short press of the pitch encoder button
TogglePitchRange ==
    /\ Booted
    /\ Call(togglePitchRange(World))

\* a call of MotorController::adjustPitchFreq
AdjustPitchFreq ==
    /\ Booted
    /\ \E deltaHz \in DeltaHzChoices : Call(adjustPitchFreq(World, deltaHz))

\* UserInterface::handleInput: the pitch encoder has moved
PitchEncoder ==
    /\ Booted
    /\ isRunning(World)
    /\ \E pitchDelta \in PitchDeltaChoices :
         /\ Abs(pitch + pitchDelta * cfg.pitchStepSize) <= MaxPitch
         /\ Call(setPitch(World, pitch + pitchDelta * cfg.pitchStepSize))

\* a direct call of MotorController::setRelays
SetRelays ==
    /\ Booted
    /\ \E active \in BOOLEAN : Call(setRelays(World, active, now))

\* UserInterface::showError: the relays after the error screen is set up
showError(w, t) == setRelays(w, FALSE, t)

\* ErrorHandler::report
Report(critical) ==
    /\ Booted
    /\ err' = [criticalError |-> err.criticalError \/ critical,
               showingError |-> err.showingError \/ cfg.errorDisplayEnabled]
    /\ LET w == IF cfg.errorDisplayEnabled THEN showError(World, now) ELSE World
       IN SetWorld(w) /\ hist' = Hist(w)
    /\ UNCHANGED <<now, boot, persist, gen, sys, activeState, pendingState, ctl, dds, ui, dma>>

ReportError == \E critical \in BOOLEAN : Report(critical)

\* handleSerialCommands: "set freq v"
SetFreqCmd ==
    /\ Booted
    /\ \E v \in FreqCmdChoices, ub \in NegCastOutcomes :
         Call(applySettingsU(
                [World EXCEPT !.cfg.speeds[cfg.currentSpeed].frequency = v], ub))

\* handleSerialCommands: "set phase1 v" .. "set phase4 v"
SetPhaseCmd ==
    /\ Booted
    /\ \E p \in PhaseCmdChannels, v \in PhaseCmdChoices, ub \in NegCastOutcomes :
         Call(applySettingsU(
                [World EXCEPT !.cfg.speeds[cfg.currentSpeed].phaseOffset[p] = v], ub))

\* actionNextSpeed: the shadow copy of a speed, edited on the Speed Tuning
\* and Phase Control pages, is stored to the configuration
MenuCommit ==
    /\ Booted
    /\ \E i \in SpeedChoices, e \in MenuEdits :
         Call([World EXCEPT !.cfg.speeds[i] =
                 [@ EXCEPT !.minFrequency = e.lo, !.maxFrequency = e.hi,
                           !.phaseOffset[2] = e.ph]])

\* the "Max Amp %" item of the menu, which edits the live configuration
SetMaxAmplitude ==
    /\ Booted
    /\ \E v \in MaxAmpChoices : Call([World EXCEPT !.cfg.maxAmplitude = v])

\* UserInterface::update at the head of loop(): handleInput restarts the
\* inactivity timer on any input (the commands an input gives are the
\* actions of their own), then the auto standby
UiUpdate ==
    /\ boot = "loop"
    /\ \E input \in BOOLEAN, ub \in NegCastOutcomes :
         LET last == IF input THEN now ELSE ui.lastInputTime
             elapsed == (now - last) \div 1000
             fires == /\ cfg.autoStandbyDelay > 0
                      /\ ~isRunning(World)
                      /\ m.state # STATE_STANDBY
                      /\ elapsed > cfg.autoStandbyDelay * 60
         IN /\ ui' = [lastInputTime |-> IF fires THEN now ELSE last]
            /\ SetWorld(IF fires THEN toggleStandby(World, now, ub) ELSE World)
            /\ hist' = Hist(IF fires THEN toggleStandby(World, now, ub) ELSE World)
    /\ UNCHANGED <<now, boot, err, persist, gen, sys, dma, activeState, pendingState,
                   ctl, dds>>

\* a minute of iterations of loop() without input or command while the
\* controller rests in Standby, Stopped or Running, once; what update() does
\* in that time it does at the next call
Idle ==
    /\ boot = "updated"
    /\ m.state \in {STATE_STANDBY, STATE_STOPPED, STATE_RUNNING}
    /\ now < IdleMs
    /\ now' = now + IdleMs
    /\ boot' = "loop"
    /\ UNCHANGED <<hist, cfg, m, pins, pitch, err, rt, persist, gen, sys, ui, dma, blk,
                   activeState, pendingState, enabled, swapPending, ctl, dds>>

\* time passes between two iterations of loop()
Tick ==
    /\ boot = "updated"
    /\ now < MaxTicks * TickMs
    /\ now' = now + TickMs
    /\ boot' = "loop"
    /\ UNCHANGED <<hist, cfg, m, pins, pitch, err, rt, persist, gen, sys, blk, activeState,
                   pendingState, enabled, swapPending, ctl, dds, ui, dma>>

\* time passes between two iterations of loop(), with the time spent in
\* Running recorded in the history
TimedTick ==
    /\ boot = "updated"
    /\ now < MaxTicks * TickMs
    /\ now' = now + TickMs
    /\ boot' = "loop"
    /\ hist' = [hist EXCEPT !.ranMs = IF m.state = STATE_RUNNING
                                       THEN @ + TickMs ELSE @]
    /\ UNCHANGED <<cfg, m, pins, pitch, err, rt, persist, gen, sys, blk, activeState,
                   pendingState, enabled, swapPending, ctl, dds, ui, dma>>

MotorNext ==
    \/ Begin
    \/ Update
    \/ Start
    \/ Stop
    \/ ToggleStartStop
    \/ ToggleStandby
    \/ Tick

Spec == InitWith(CfgSpace) /\ [][MotorNext]_vars

\* the life cycle with a start-up kick configured
KickSpec == InitWith(KickCfgSpace) /\ [][MotorNext]_vars

\* the controller with the speed and pitch commands
SpeedNext ==
    \/ Begin
    \/ Update
    \/ Start
    \/ Stop
    \/ ToggleStandby
    \/ SetSpeed
    \/ SetPitch
    \/ Tick

\* the same without the standby switch
StartNext ==
    \/ Begin
    \/ Update
    \/ Start
    \/ Stop
    \/ SetSpeed
    \/ SetPitch
    \/ Tick

SpeedSpec == InitWith(StartCfgSpace) /\ [][StartNext]_vars

\* the controller with the amplitude reduction configured
ReduceSpec == InitWith(ReduceCfgSpace) /\ [][SpeedNext]_vars

\* the running controller with smooth speed switching
SwitchNext ==
    \/ Begin
    \/ Update
    \/ Start
    \/ SetSpeed
    \/ SetPitch
    \/ Tick

SwitchSpec == InitWith(SwitchCfgSpace) /\ [][SwitchNext]_vars

\* the image of GlobalSettings read from a settings file: one speed with any
\* bounds, nominal frequency, soft start and phase offset of channel 2
VersionChoices == {SETTINGS_SCHEMA_VERSION, SETTINGS_SCHEMA_VERSION + 1}
MaxAmplitudeChoices == {100, 101}
BoundChoices == {400, 600}
FrequencyChoices == {300, 500, 700, NaN}
SoftStartDataChoices == {-10, 10}
PhaseChoices == {-90 * Deg, -1, 0, 90 * Deg, 360 * Deg, 450 * Deg}
RawData ==
    { [DefaultData EXCEPT
         !.schemaVersion = v, !.maxAmplitude = ma,
         !.speeds[SPEED_33] =
             [@ EXCEPT !.minFrequency = lo, !.maxFrequency = hi, !.frequency = f,
                       !.softStartDuration = ss, !.phaseOffset[2] = ph]] :
        v \in VersionChoices, ma \in MaxAmplitudeChoices, lo \in BoundChoices,
        hi \in BoundChoices, f \in FrequencyChoices, ss \in SoftStartDataChoices,
        ph \in PhaseChoices }

\* Settings::save: the write of the settings file
saveFile(d) == [present |-> TRUE, image |-> d]

\* a call of Settings::validate on the image d just read; a schema mismatch
\* resets the defaults, which saves them
Validate ==
    /\ persist' = [persist EXCEPT
                      !.data = validate(persist.data),
                      !.file = IF persist.data.schemaVersion # SETTINGS_SCHEMA_VERSION
                               THEN saveFile(DefaultData) ELSE persist.file]
    /\ UNCHANGED <<cfg, now, boot, m, pins, pitch, err, rt, hist, gen, sys, blk,
                   activeState, pendingState, enabled, swapPending, ctl, dds, ui, dma>>

\* validate() applied to any image
ValidateSpec ==
    InitAll({DefaultCfg},
            {[DefaultPersist EXCEPT !.data = d, !.file = saveFile(d)] : d \in RawData})
      /\ [][Validate]_vars

\* Settings::resetDefaults
resetDefaults(p) == [p EXCEPT !.data = DefaultData, !.file = saveFile(DefaultData)]

\* Settings::load that takes a file of the current version for a newer one
loadNewer(p) == resetDefaults(p)

\* Settings::load.  migrate() takes the speeds, the speed selection and the
\* maximum amplitude of a version 2 or 3 file, saves, and skips validate()
load(p) ==
    IF ~p.file.present THEN resetDefaults(p)
    ELSE LET image == p.file.image
             version == image.schemaVersion
         IN IF version < SETTINGS_SCHEMA_VERSION
            THEN IF version \in {2, 3}
                 THEN LET d == [image EXCEPT !.schemaVersion = SETTINGS_SCHEMA_VERSION]
                      IN [p EXCEPT !.data = d, !.file = saveFile(d)]
                 ELSE resetDefaults(p)
            ELSE IF version > SETTINGS_SCHEMA_VERSION THEN resetDefaults(p)
            ELSE [p EXCEPT !.data = validate(image)]

\* Settings::save; opened tells whether LittleFS.open succeeded
Save ==
    /\ \E opened \in BOOLEAN :
         persist' = [persist EXCEPT
                       !.file = IF opened THEN saveFile(persist.data) ELSE @,
                       !.saved = persist.data,
                       !.trip = IF opened THEN "saved" ELSE "failed"]
    /\ UNCHANGED <<cfg, now, boot, m, pins, pitch, err, rt, hist, gen, sys, blk,
                   activeState, pendingState, enabled, swapPending, ctl, dds, ui, dma>>

\* a call of Settings::load
Load ==
    /\ persist' = [load(persist) EXCEPT
                      !.trip = IF persist.trip = "saved" THEN "loaded"
                               ELSE IF persist.trip = "failed" THEN "loadedUnsaved"
                               ELSE "none"]
    /\ UNCHANGED <<cfg, now, boot, m, pins, pitch, err, rt, hist, gen, sys, blk,
                   activeState, pendingState, enabled, swapPending, ctl, dds, ui, dma>>

\* save() and load() on any configuration in memory, no file at first
RoundTripSpec ==
    InitAll({DefaultCfg}, {[DefaultPersist EXCEPT !.data = d] : d \in RawData})
      /\ [][Save \/ Load]_vars

\* Settings::load on a file shorter than the struct of its version: the
\* read of the struct, or migrate(), fails
LoadShort ==
    /\ persist.file.present
    /\ persist' = resetDefaults(persist)
    /\ UNCHANGED <<cfg, now, boot, m, pins, pitch, err, rt, hist, gen, sys, blk,
                   activeState, pendingState, enabled, swapPending, ctl, dds, ui, dma>>

\* the settings files load() may find: of versions 1, 2, 3, the current one
\* and a newer one, with finite frequencies and phase offsets away from the
\* rounding at 360
FileVersionChoices == {1, 2, 3, SETTINGS_SCHEMA_VERSION, SETTINGS_SCHEMA_VERSION + 1}
LoadFileChoices ==
    { [d EXCEPT !.schemaVersion = v] :
        d \in {r \in RawData : /\ r.schemaVersion = SETTINGS_SCHEMA_VERSION
                               /\ r.speeds[SPEED_33].frequency # NaN
                               /\ r.speeds[SPEED_33].phaseOffset[2] # -1},
        v \in FileVersionChoices }

\* load() on no file and on any of the files
LoadSpec ==
    InitAll({DefaultCfg},
            {DefaultPersist}
              \cup {[DefaultPersist EXCEPT !.file = saveFile(d)] : d \in LoadFileChoices})
      /\ [][Load \/ LoadShort]_vars

\* seconds of running counted in one behaviour
MaxRuntime == 2

\* Settings::updateRuntime after a second of running; the motor runs only
\* after Settings::begin has loaded the file, which migrates an older one
CountRuntime ==
    /\ persist.data.totalRuntime < MaxRuntime
    /\ persist.file.image.schemaVersion = SETTINGS_SCHEMA_VERSION
    /\ persist' = [persist EXCEPT !.data.totalRuntime = @ + 1]
    /\ UNCHANGED <<cfg, now, boot, m, pins, pitch, err, rt, hist, gen, sys, blk,
                   activeState, pendingState, enabled, swapPending, ctl, dds, ui, dma>>

\* Settings::savePreset of the one slot of the model
SavePreset ==
    /\ persist' = [persist EXCEPT !.preset = saveFile(persist.data)]
    /\ UNCHANGED <<cfg, now, boot, m, pins, pitch, err, rt, hist, gen, sys, blk,
                   activeState, pendingState, enabled, swapPending, ctl, dds, ui, dma>>

\* Settings::loadPreset
loadPreset(p) ==
    IF p.preset.present THEN [p EXCEPT !.data = validate(p.preset.image)] ELSE p

\* Settings::loadPreset of the one slot of the model
LoadPreset ==
    /\ persist' = loadPreset(persist)
    /\ UNCHANGED <<cfg, now, boot, m, pins, pitch, err, rt, hist, gen, sys, blk,
                   activeState, pendingState, enabled, swapPending, ctl, dds, ui, dma>>

\* Settings::load ends in resetDefaults: no file, or a file of a version
\* that is neither the current one nor migrated
loadResets(p) ==
    \/ ~p.file.present
    \/ p.file.image.schemaVersion > SETTINGS_SCHEMA_VERSION
    \/ p.file.image.schemaVersion < SETTINGS_SCHEMA_VERSION
          /\ p.file.image.schemaVersion \notin {2, 3}

\* the settings with the runtime counter, saved, reloaded (menu Cancel,
\* start-up) and exchanged with a preset; at first no file, or a version 3
\* file with a second of runtime
RuntimeStoreNext ==
    \/ CountRuntime
    \/ Save
    \/ Load
    \/ SavePreset
    \/ LoadPreset

RuntimeStoreSpec ==
    InitAll({DefaultCfg},
            {DefaultPersist,
             [DefaultPersist EXCEPT
                !.file = saveFile([DefaultData EXCEPT !.schemaVersion = 3,
                                                      !.totalRuntime = 1])]})
      /\ [][RuntimeStoreNext]_vars

\* the life cycle with the time spent in Running recorded
RuntimeNext ==
    \/ Begin
    \/ Update
    \/ Start
    \/ Stop
    \/ ToggleStandby
    \/ TimedTick

RuntimeSpec == InitWith(CfgSpace) /\ [][RuntimeNext]_vars

\* the controller with all the pitch commands
PitchNext ==
    \/ Begin
    \/ Update
    \/ Start
    \/ SetPitchIn(WidePitchChoices)
    \/ ResetPitch
    \/ TogglePitchRange
    \/ AdjustPitchFreq
    \/ PitchEncoder
    \/ Tick

PitchSpec == InitWith(PitchCfgSpace) /\ [][PitchNext]_vars

\* the configurations of the speed selection: the 45 rpm profile told from
\* the others by its filter and its phase offsets, each boot speed (3: the
\* last used) with each persisted speed
ProfileCfgSpace ==
    {[DefaultCfg EXCEPT !.bootSpeed = b, !.currentSpeed = c,
                        !.speeds[SPEED_45] =
                            [@ EXCEPT !.filterType = FILTER_IIR,
                                      !.phaseOffset = <<0, 90, 180, 270>>]] :
        b \in 0..3, c \in {SPEED_33, SPEED_45, SPEED_78}}

\* the controller with the speed selection
ProfileNext ==
    \/ Begin
    \/ Update
    \/ Start
    \/ SetSpeed
    \/ Tick

ProfileSpec == InitWith(ProfileCfgSpace) /\ [][ProfileNext]_vars

\* the controller with the inactivity timer, auto standby after a minute
StandbyNext ==
    \/ Begin
    \/ UiUpdate
    \/ Update
    \/ ToggleStandby
    \/ Start
    \/ Stop
    \/ Tick
    \/ Idle

StandbySpec ==
    InitWith({[DefaultCfg EXCEPT !.autoStandbyDelay = 1]}) /\ [][StandbyNext]_vars

\* the controller with changes of the maximum amplitude
AmpNext ==
    \/ Begin
    \/ Update
    \/ Start
    \/ Stop
    \/ SetMaxAmplitude
    \/ Tick

AmpSpec == InitWith({DefaultCfg}) /\ [][AmpNext]_vars

\* the stopped controller with the configuration commands
CliNext ==
    \/ Begin
    \/ Update
    \/ SetFreqCmd
    \/ SetPhaseCmd
    \/ MenuCommit
    \/ Tick

CliSpec == InitWith({DefaultCfg}) /\ [][CliNext]_vars

\* the controller with the relay commands and the error reports
RelayNext ==
    \/ Begin
    \/ Update
    \/ Start
    \/ Stop
    \/ ToggleStandby
    \/ SetRelays
    \/ ReportError
    \/ Tick

RelaySpec == InitWith(RelayCfgSpace) /\ [][RelayNext]_vars

ErrorSpec == InitWith(ErrorCfgSpace) /\ [][RelayNext]_vars

\* the controller switched on, started, stopped and put to standby, the
\* relays linked to standby
StandbyRelayNext ==
    \/ Begin
    \/ Update
    \/ Start
    \/ Stop
    \/ ToggleStandby
    \/ Tick

StandbyRelaySpec ==
    InitWith({c \in RelayCfgSpace : c.muteRelayLinkStandby}) /\ [][StandbyRelayNext]_vars

\* the configurations of the unmute at start: the relays linked to
\* start/stop, with and without the power-on delay and the auto start
UnmuteCfgSpace ==
    { [c EXCEPT !.autoStart = a] :
        c \in {d \in RelayCfgSpace : d.muteRelayLinkStartStop}, a \in BOOLEAN }

\* the controller started and stopped, no error reported
UnmuteNext ==
    \/ Begin
    \/ Update
    \/ Start
    \/ Stop
    \/ Tick

\* loop() never stops iterating: update() is called again and again, and
\* the clock goes on
UnmuteFair == WF_vars(Update) /\ WF_vars(Tick)

UnmuteSpec == InitWith(UnmuteCfgSpace) /\ [][UnmuteNext]_vars /\ UnmuteFair

(***************************************************************************)
(* The parameter exchange between the cores.  The control core runs a      *)
(* setter of WaveformGenerator one memory access at a time: it loads       *)
(* _pendingState (a plain member, which the build may keep in a register   *)
(* or load again before any store), stores the fields, then sets           *)
(* _swapPending.  The DDS core runs fillBuffer one access at a time.       *)
(* The accesses are unsynchronised, so any interleaving can occur.         *)
(***************************************************************************)
\* the arguments the setters are called with
CtlFreqs == {100 * FreqScale}
CtlAmps == {AmpScale}
CtlProfiles == {[DefaultSpeed(SPEED_45) EXCEPT !.filterType = FILTER_IIR]}

\* the stores of the calls the control core may make
CtlCalls ==
    {WritesSetFrequency(f) : f \in CtlFreqs}
      \cup {WritesSetAmplitude(a) : a \in CtlAmps}
      \cup {WritesConfigure(sp) : sp \in CtlProfiles}
      \cup {WritesUpdateSettings(f, sp) : f \in CtlFreqs, sp \in CtlProfiles}

\* a setter is entered: this->_pendingState is loaded
CtlCall ==
    /\ ctl.pc = "idle"
    /\ ctl.left > 0
    /\ \E ws \in CtlCalls :
         ctl' = [ctl EXCEPT !.pc = "store", !.ws = ws, !.all = ws,
                            !.ptr = pendingState, !.left = @ - 1]
    /\ UNCHANGED <<motorVars, blk, activeState, pendingState, enabled, swapPending, dds>>

\* _pendingState is loaded again between two stores
CtlReload ==
    /\ ctl.pc = "store"
    /\ ctl.ptr # pendingState
    /\ ctl' = [ctl EXCEPT !.ptr = pendingState]
    /\ UNCHANGED <<motorVars, blk, activeState, pendingState, enabled, swapPending, dds>>

\* the position of the control core after a store that leaves rest to do
afterStore(rest) == IF rest = <<>> THEN "flag" ELSE "store"

\* _pendingState->field = value
CtlStore ==
    /\ ctl.pc = "store"
    /\ LET wr == Head(ctl.ws)
       IN /\ blk' = [blk EXCEPT ![ctl.ptr][wr[1]] = wr[2]]
          /\ ctl' = [ctl EXCEPT !.ws = Tail(@), !.lastW[wr[1]] = wr[2],
                                !.pc = afterStore(Tail(ctl.ws))]
    /\ UNCHANGED <<motorVars, activeState, pendingState, enabled, swapPending, dds>>

\* _swapPending = true
CtlFlag ==
    /\ ctl.pc = "flag"
    /\ swapPending' = TRUE
    /\ ctl' = [ctl EXCEPT !.pc = "idle", !.all = <<>>]
    /\ UNCHANGED <<motorVars, blk, activeState, pendingState, enabled, dds>>

\* WaveformGenerator::setEnabled
CtlSetEnabled ==
    /\ ctl.pc = "idle"
    /\ enabled' = ~enabled
    /\ UNCHANGED <<motorVars, blk, activeState, pendingState, swapPending, ctl, dds>>

\* the parameters one sample is synthesised from: the words getSample and
\* fillBuffer read through _activeState
SampleParams == [k \in DdsFields |-> blk[activeState][k]]

\* fillBuffer is entered: the disabled branch fills the half with zeros
DdsEnter ==
    /\ dds.pc = "idle"
    /\ dds' = IF enabled THEN [dds EXCEPT !.pc = "check", !.i = 0, !.buf = <<>>]
              ELSE [dds EXCEPT !.buf = <<>>]
    /\ UNCHANGED <<motorVars, blk, activeState, pendingState, enabled, swapPending, ctl>>

\* if (_swapPending)
DdsCheck ==
    /\ dds.pc = "check"
    /\ dds' = [dds EXCEPT !.pc = IF swapPending THEN "swapActive" ELSE "fill"]
    /\ UNCHANGED <<motorVars, blk, activeState, pendingState, enabled, swapPending, ctl>>

\* temp = _activeState; _activeState = _pendingState
DdsSwapActive ==
    /\ dds.pc = "swapActive"
    /\ activeState' = pendingState
    /\ dds' = [dds EXCEPT !.pc = "swapPending", !.temp = activeState]
    /\ UNCHANGED <<motorVars, blk, pendingState, enabled, swapPending, ctl>>

\* _pendingState = temp
DdsSwapPending ==
    /\ dds.pc = "swapPending"
    /\ pendingState' = dds.temp
    /\ dds' = [dds EXCEPT !.pc = "copy", !.i = 1]
    /\ UNCHANGED <<motorVars, blk, activeState, enabled, swapPending, ctl>>

\* *_pendingState = *_activeState, one word at a time
DdsCopy ==
    /\ dds.pc = "copy"
    /\ blk' = [blk EXCEPT ![pendingState][Fields[dds.i]] = blk[activeState][Fields[dds.i]]]
    /\ dds' = IF dds.i = Len(Fields) THEN [dds EXCEPT !.pc = "clear", !.i = 0]
              ELSE [dds EXCEPT !.i = @ + 1]
    /\ UNCHANGED <<motorVars, activeState, pendingState, enabled, swapPending, ctl>>

\* _swapPending = false
DdsClear ==
    /\ dds.pc = "clear"
    /\ swapPending' = FALSE
    /\ dds' = [dds EXCEPT !.pc = "fill"]
    /\ UNCHANGED <<motorVars, blk, activeState, pendingState, enabled, ctl>>

\* one iteration of the sample loop
DdsSample ==
    /\ dds.pc = "fill"
    /\ dds' = [dds EXCEPT !.buf = Append(@, SampleParams), !.i = @ + 1,
                          !.pc = IF dds.i + 1 = BufLen THEN "idle" ELSE "fill"]
    /\ UNCHANGED <<motorVars, blk, activeState, pendingState, enabled, swapPending, ctl>>

CtlNext == CtlCall \/ CtlReload \/ CtlStore \/ CtlFlag \/ CtlSetEnabled
DdsNext ==
    \/ DdsEnter
    \/ DdsCheck
    \/ DdsSwapActive
    \/ DdsSwapPending
    \/ DdsCopy
    \/ DdsClear
    \/ DdsSample

ExchangeNext == CtlNext \/ DdsNext

\* the exchange with the motor controller left out: the control core calls
\* the setters with any arguments
ExchangeSpec == InitWith({DefaultCfg}) /\ [][ExchangeNext]_vars

(***************************************************************************)
(* The sample loop of fillBuffer.  The lookup table of the model has the   *)
(* eight entries (int16_t)(sin(2 pi i / 8) * 511.0); the phase is kept to  *)
(* the bits that select the entry and the 10-bit fraction.  Filter values  *)
(* are kept in units of 1 / FilterScale, coefficients in hundredths.       *)
(***************************************************************************)
Lut == <<0, 361, 511, 361, 0, -361, -511, -361>>
LutSize == Len(Lut)
FracOne == 2^10
PhaseMod == LutSize * FracOne
\* the low bits of a 32-bit phase word that the model drops
PhaseDrop == 2 * ((2147483647 \div PhaseMod) + 1)
FilterScale == 2^10

\* the kept bits of a uint32_t given in its signed representation
PhaseTop(word) ==
    IF word >= 0 THEN word \div PhaseDrop
    ELSE ((word + 2147483647) + 1) \div PhaseDrop + PhaseMod \div 2

\* conversion of a float to an integer type: towards zero
TruncDiv(a, b) == IF a >= 0 THEN a \div b ELSE -((-a) \div b)
\* (int16_t) and (uint16_t) of an int
Int16(x) == ((x + 32768) % 65536) - 32768
UInt16(x) == x % 65536

FIR_AGGRESSIVE == 2
FIR_COEFFS_GENTLE == [i \in 0..7 |-> <<0, 0, 10, 40, 40, 10, 0, 0>>[i + 1]]
FIR_COEFFS_MEDIUM == [i \in 0..7 |-> <<5, 5, 10, 30, 30, 10, 5, 5>>[i + 1]]
FIR_COEFFS_AGGRESSIVE == [i \in 0..7 |-> <<10, 10, 10, 20, 20, 10, 10, 10>>[i + 1]]

\* val = s1 + (((s2 - s1) * frac) >> 10); val = (int32_t)(val * amplitude)
tableValue(phase, amplitude) ==
    LET index == phase \div FracOne
        frac == phase % FracOne
        nextIndex == IF index + 1 >= LutSize THEN 0 ELSE index + 1
        s1 == Lut[index + 1]
        s2 == Lut[nextIndex + 1]
        val == s1 + ((s2 - s1) * frac) \div FracOne
    IN TruncDiv(val * amplitude, AmpScale)

\* a filter that adds the weighted input to the whole of the previous output
iirOutSum(alpha, val, prev) == Round(alpha * val * FilterScale + 100 * prev, 100)
\* out = alpha * val + (1.0 - alpha) * _iirPrev[channel]
iirOut(alpha, val, prev) ==
    Round(alpha * val * FilterScale + (100 - alpha) * prev, 100)

\* sum += _firBuffer[channel][i] * coeffs[i], i = 0 .. 7
RECURSIVE firSum(_, _, _)
firSum(buf, coeffs, i) ==
    IF i > 7 THEN 0 ELSE buf[i] * coeffs[i] + firSum(buf, coeffs, i + 1)

\* WaveformGenerator::getSample: the generator after the call and the value
\* returned
getSample(g, st, channel) ==
    LET offsets == <<st.po0, st.po1, st.po2, st.po3>>
        phase == (g.phaseAcc + PhaseTop(offsets[channel + 1])) % PhaseMod
        val == tableValue(phase, st.amplitude)
    IN IF st.filterType = FILTER_IIR
       THEN LET out == iirOut(st.iirAlpha, val, g.iirPrev[channel])
            IN [g |-> [g EXCEPT !.iirPrev[channel] = out],
                val |-> Int16(Int16(TruncDiv(out, FilterScale)))]
       ELSE IF st.filterType = FILTER_FIR
       THEN LET buf == [i \in 0..7 |-> IF i = 0 THEN val
                                        ELSE g.firBuffer[channel][i - 1]]
                coeffs == IF st.firProfile = FIR_GENTLE THEN FIR_COEFFS_GENTLE
                          ELSE IF st.firProfile = FIR_MEDIUM THEN FIR_COEFFS_MEDIUM
                          ELSE FIR_COEFFS_AGGRESSIVE
            IN [g |-> [g EXCEPT !.firBuffer[channel] = buf],
                val |-> Int16(Int16(TruncDiv(firSum(buf, coeffs, 0), 100)))]
       ELSE [g |-> g, val |-> Int16(val)]

\* uint16_t v = (uint16_t)(512 + sample); if (v > 1023) v = 1023
compare(sample) ==
    LET v == UInt16(512 + sample) IN IF v > 1023 THEN 1023 ELSE v
\* (valB << 16) | valA
pack(valA, valB) == valB * 65536 + valA
\* the two compare values of a word
Low16(word) == word % 65536
High16(word) == word \div 65536

\* one iteration of the sample loop: four samples, the accumulator advanced,
\* two words stored
sampleStep(g, st) ==
    LET r0 == getSample(g, st, 0)
        r1 == getSample(r0.g, st, 1)
        r2 == getSample(r1.g, st, 2)
        r3 == getSample(r2.g, st, 3)
    IN [r3.g EXCEPT
          !.phaseAcc = (@ + PhaseTop(st.phaseInc)) % PhaseMod,
          !.samples = Append(@, <<r0.val, r1.val, r2.val, r3.val>>),
          !.slice0 = Append(@, pack(compare(r0.val), compare(r1.val))),
          !.slice1 = Append(@, pack(compare(r2.val), compare(r3.val)))]

RECURSIVE sampleLoop(_, _, _)
sampleLoop(g, st, i) ==
    IF i >= BufLen THEN g ELSE sampleLoop(sampleStep(g, st), st, i + 1)

\* what fillBuffer reads and writes
GenState ==
    [gen |-> gen, blk |-> blk, activeState |-> activeState,
     pendingState |-> pendingState, swapPending |-> swapPending]

SetGenState(s) ==
    /\ gen' = s.gen
    /\ blk' = s.blk
    /\ activeState' = s.activeState
    /\ pendingState' = s.pendingState
    /\ swapPending' = s.swapPending

\* if (_swapPending) { ... }
swapped(s) ==
    IF s.swapPending
    THEN [s EXCEPT !.blk[s.activeState] = s.blk[s.pendingState],
                   !.activeState = s.pendingState, !.pendingState = s.activeState,
                   !.swapPending = FALSE]
    ELSE s

\* fillBuffer with the swap of the blocks ahead of the test of _enabled
fillBufferSwapFirst(s, en) ==
    LET t == swapped(s)
    IN IF ~en
       THEN [t EXCEPT !.gen = [@ EXCEPT !.samples = <<>>,
                                        !.slice0 = [i \in 1..BufLen |-> 0],
                                        !.slice1 = [i \in 1..BufLen |-> 0],
                                        !.filled = "zeros", !.fills = @ + 1]]
       ELSE [t EXCEPT !.gen =
               [sampleLoop([@ EXCEPT !.samples = <<>>, !.slice0 = <<>>, !.slice1 = <<>>],
                           t.blk[t.activeState], 0)
                  EXCEPT !.filled = "samples", !.fills = @ + 1]]

\* WaveformGenerator::fillBuffer, run without the control core in between
fillBuffer(s, en) ==
    IF ~en
    THEN [s EXCEPT !.gen = [@ EXCEPT !.samples = <<>>,
                                     !.slice0 = [i \in 1..BufLen |-> 0],
                                     !.slice1 = [i \in 1..BufLen |-> 0],
                                     !.filled = "zeros", !.fills = @ + 1]]
    ELSE LET t == swapped(s)
         IN [t EXCEPT !.gen =
               [sampleLoop([@ EXCEPT !.samples = <<>>, !.slice0 = <<>>, !.slice1 = <<>>],
                           t.blk[t.activeState], 0)
                  EXCEPT !.filled = "samples", !.fills = @ + 1]]

\* refills of one behaviour
MaxFills == 3

\* WaveformGenerator::update: a half of the buffers is free and is refilled
FillBuffer ==
    /\ gen.fills < MaxFills
    /\ SetGenState(fillBuffer(GenState, enabled))
    /\ UNCHANGED <<cfg, now, boot, m, pins, pitch, err, rt, persist, sys, hist, enabled,
                   ctl, dds, ui, dma>>

\* the calls of the control core between two refills: amplitudes of a half
\* and of one, 200 Hz, the 33 rpm profile with each filter kind, the
\* channels at the zero crossing, the crest, 225 degrees and the trough,
\* the IIR filter with the default alpha and with the largest of the menu
GenAmps == {AmpScale \div 2, AmpScale}
GenFreqs == {200 * FreqScale}
GenOffsets == <<0, 90, 225, 270>>
GenProfiles ==
    {[DefaultSpeed(SPEED_33) EXCEPT !.filterType = k, !.phaseOffset = GenOffsets] :
        k \in {FILTER_NONE, FILTER_IIR, FILTER_FIR}}
      \cup {[DefaultSpeed(SPEED_33) EXCEPT !.filterType = FILTER_IIR, !.iirAlpha = 99,
                                           !.phaseOffset = GenOffsets]}
GenCalls ==
    {WritesSetFrequency(f) : f \in GenFreqs}
      \cup {WritesSetAmplitude(a) : a \in GenAmps}
      \cup {WritesConfigure(sp) : sp \in GenProfiles}

\* a setter of the generator with stores in S, run without the DDS core in
\* between
GenPublishIn(S) ==
    /\ \E ws \in S :
         blk' = [blk EXCEPT ![pendingState] = ApplyWrites(@, ws)]
    /\ swapPending' = TRUE
    /\ UNCHANGED <<motorVars, activeState, pendingState, enabled, ctl, dds>>

GenPublish == GenPublishIn(GenCalls)

GenNext ==
    \/ GenPublish
    \/ CtlSetEnabled
    \/ FillBuffer

\* the generator with whole setters and whole refills
GenSpec == InitWith({DefaultCfg}) /\ [][GenNext]_vars

(***************************************************************************)
(* start() one call of the generator at a time, with the refills of the    *)
(* DDS core in between: the calls up to the relays, setEnabled(true),      *)
(* setAmplitude(0.0).  The setters and the refills are taken whole.        *)
(***************************************************************************)
\* start() up to waveform.setEnabled(true)
StartPrepare ==
    /\ Booted
    /\ ctl.pc = "idle"
    /\ ~startReturnsEarly(m.state)
    /\ SetWorld(startPrepare(World, now))
    /\ hist' = Hist(startPrepare(World, now))
    /\ ctl' = [ctl EXCEPT !.pc = "setEnabled"]
    /\ UNCHANGED <<now, boot, err, persist, gen, sys, ui, dma, activeState, pendingState, dds>>

\* start(): waveform.setEnabled(true)
StartSetEnabled ==
    /\ ctl.pc = "setEnabled"
    /\ enabled' = TRUE
    /\ ctl' = [ctl EXCEPT !.pc = "setAmplitude"]
    /\ UNCHANGED <<motorVars, blk, activeState, pendingState, swapPending, dds>>

\* start(): waveform.setAmplitude(0.0)
StartSetAmplitude ==
    /\ ctl.pc = "setAmplitude"
    /\ SetWorld(WfSetAmplitude(World, 0))
    /\ ctl' = [ctl EXCEPT !.pc = "idle"]
    /\ UNCHANGED <<now, boot, err, persist, gen, sys, ui, dma, hist, activeState, pendingState, dds>>

\* loop() outside start(): motor.update()
LoopUpdate == ctl.pc = "idle" /\ Update

\* loop() outside start(): the console line "stop"
LoopStop == ctl.pc = "idle" /\ Stop

SilentNext ==
    \/ Begin
    \/ StartPrepare
    \/ StartSetEnabled
    \/ StartSetAmplitude
    \/ LoopUpdate
    \/ LoopStop
    \/ FillBuffer
    \/ Tick

SilentSpec == InitWith({DefaultCfg}) /\ [][SilentNext]_vars

(***************************************************************************)
(* Start-up: setup() on the control core, setup1() on the DDS core.        *)
(***************************************************************************)
\* the words fillBuffer left in a half of the two buffers
HalfOf(g) == <<g.slice0, g.slice1>>

\* setup(): settings.begin(); mounted tells whether LittleFS could be
\* mounted, at once or after formatting
SettingsBegin ==
    /\ sys.core0 = "settings"
    /\ \E mounted \in BOOLEAN :
         /\ persist' = IF mounted THEN load(persist) ELSE persist
         /\ sys' = [sys EXCEPT !.core0 = "motor", !.loaded = mounted]
    /\ UNCHANGED <<cfg, now, boot, m, pins, pitch, err, rt, hist, gen, blk,
                   activeState, pendingState, enabled, swapPending, ctl, dds, ui, dma>>

\* setup(): motor.begin()
MotorBegin ==
    /\ sys.core0 = "motor"
    /\ boot = "constructed"
    /\ boot' = "loop"
    /\ SetWorld(begin(World, now))
    /\ hist' = Hist(begin(World, now))
    /\ sys' = [sys EXCEPT !.core0 = "flag", !.motorBegun = TRUE]
    /\ UNCHANGED <<now, err, persist, gen, activeState, pendingState, ctl, dds, ui, dma>>

\* setup(): systemInitialized = true
SetInitialized ==
    /\ sys.core0 = "flag"
    /\ sys' = [sys EXCEPT !.core0 = "loop", !.systemInitialized = TRUE]
    /\ UNCHANGED <<cfg, now, boot, m, pins, pitch, err, rt, persist, hist, gen, blk,
                   activeState, pendingState, enabled, swapPending, ctl, dds, ui, dma>>

\* setup1(): while (!systemInitialized) delay(1);
Spin ==
    /\ sys.core1 = "spin"
    /\ sys' = [sys EXCEPT !.core1 = IF sys.systemInitialized THEN "begin" ELSE "spin"]
    /\ UNCHANGED <<cfg, now, boot, m, pins, pitch, err, rt, persist, hist, gen, blk,
                   activeState, pendingState, enabled, swapPending, ctl, dds, ui, dma>>

\* setup1(): waveform.begin(), which refills both halves of the buffers
WaveformBegin ==
    /\ sys.core1 = "begin"
    /\ LET s0 == fillBuffer(GenState, enabled)
           s1 == fillBuffer(s0, enabled)
       IN /\ SetGenState(s1)
          /\ dma' = [dma EXCEPT !.busy = 0,
                                !.half = [h \in {0, 1} |->
                                            IF h = 0 THEN HalfOf(s0.gen) ELSE HalfOf(s1.gen)]]
    /\ sys' = [sys EXCEPT !.core1 = "loop1", !.waveformBegun = TRUE]
    /\ UNCHANGED <<cfg, now, boot, m, pins, pitch, err, rt, persist, hist, enabled,
                   ctl, dds, ui>>

StartupNext ==
    \/ SettingsBegin
    \/ MotorBegin
    \/ SetInitialized
    \/ (sys.core0 = "loop" /\ (Update \/ ToggleStartStop \/ Tick))
    \/ Spin
    \/ WaveformBegin
    \/ (sys.core1 = "loop1" /\ FillBuffer)

\* the two cores from reset, with no settings file, a settings file of the
\* current version or one of a newer version
StartupSpec ==
    InitAll({DefaultCfg},
            {DefaultPersist}
              \cup {[DefaultPersist EXCEPT !.file = saveFile(d)] :
                      d \in {[DefaultData EXCEPT !.schemaVersion = v] : v \in VersionChoices}})
      /\ [][StartupNext]_vars

(***************************************************************************)
(* The DMA and the refills of update().  Channels 0 and 2 read half 0 of   *)
(* the two buffers, channels 1 and 3 half 1; each pair chains to the other *)
(* when its transfers are done, paced by the PWM and by nothing else.      *)
(* update() polls the busy bits and enters fillBuffer, which runs while    *)
(* the DMA goes on.                                                        *)
(***************************************************************************)
\* refills of update() in one behaviour
MaxRefills == 2

\* the running pair has done its transfers and chains to the other pair
DmaChain ==
    /\ dma.busy # -1
    /\ dma' = [dma EXCEPT !.busy = 1 - @]
    /\ UNCHANGED <<cfg, now, boot, m, pins, pitch, err, rt, persist, gen, sys, ui, hist,
                   blk, activeState, pendingState, enabled, swapPending, ctl, dds>>

\* the half update() chooses to refill, -1 for none
refillChoice(d) ==
    IF d.busy = 0 /\ d.lastFilledBuffer # 1 THEN 1
    ELSE IF d.busy = 1 /\ d.lastFilledBuffer # 0 THEN 0
    ELSE -1

\* loop1(): update() polls the busy bits and enters fillBuffer
UpdatePoll ==
    /\ sys.core1 = "loop1"
    /\ dma.writing = -1
    /\ dma.refills < MaxRefills
    /\ refillChoice(dma) # -1
    /\ dma' = [dma EXCEPT !.writing = refillChoice(dma),
                          !.lastFilledBuffer = refillChoice(dma),
                          !.refills = @ + 1]
    /\ UNCHANGED <<cfg, now, boot, m, pins, pitch, err, rt, persist, gen, sys, ui, hist,
                   blk, activeState, pendingState, enabled, swapPending, ctl, dds>>

\* fillBuffer of update() rewrites the half and returns
FillDone ==
    /\ dma.writing # -1
    /\ LET s1 == fillBuffer(GenState, enabled)
       IN /\ SetGenState(s1)
          /\ dma' = [dma EXCEPT !.writing = -1, !.half[dma.writing] = HalfOf(s1.gen)]
    /\ UNCHANGED <<cfg, now, boot, m, pins, pitch, err, rt, persist, sys, ui, hist,
                   enabled, ctl, dds>>

\* the calls of the control core in loop(): full amplitude, 200 Hz
DmaCalls ==
    {WritesSetAmplitude(AmpScale)} \cup {WritesSetFrequency(f) : f \in GenFreqs}

DmaNext ==
    \/ SettingsBegin
    \/ MotorBegin
    \/ SetInitialized
    \/ Spin
    \/ WaveformBegin
    \/ (sys.core0 = "loop" /\ (GenPublishIn(DmaCalls) \/ CtlSetEnabled))
    \/ DmaChain
    \/ UpdatePoll
    \/ FillDone

\* the two cores from reset with the DMA
DmaSpec == InitWith({DefaultCfg}) /\ [][DmaNext]_vars

(***************************************************************************)
(* The claims.                                                             *)
(***************************************************************************)
\* the DDS core is between the first and the last sample of a refill
RefillInProgress == dds.pc = "fill"

\* C1: publish linearisation.  All the samples of one buffer refill are
\* synthesised from the same parameter values, under every interleaving of
\* the control core's setters with fillBuffer.
C1_PublishLinearisation ==
    \A i, j \in DOMAIN dds.buf : dds.buf[i] = dds.buf[j]

\* both cores are outside the exchange and nothing is left to promote
Quiescent == ctl.pc = "idle" /\ dds.pc = "idle" /\ enabled /\ ~swapPending

\* C2: no lost publish.  Every field the control core wrote and published is
\* promoted: once the control core has stopped writing and the refills have
\* consumed the publish flag, the active block holds, for every field, the
\* last value the control core wrote.
C2_NoLostPublish ==
    Quiescent => \A k \in FieldSet : blk[activeState][k] = ctl.lastW[k]

\* the control core has done some but not all of the stores of a call, into
\* block b
PartiallyWritten(b) == ctl.pc = "store" /\ ctl.ws # ctl.all /\ ctl.ptr = b

\* C3: consistent parameter set.  A swap never promotes a block between the
\* first and the last field store of one control-core update.
C3_ConsistentParameterSet ==
    [][activeState' # activeState => ~PartiallyWritten(activeState')]_vars

\* a step of the control core inside a setter
CtlStep == ctl' # ctl

\* C4: swap ownership.  The pointers change and the publish flag is cleared
\* only by the DDS core at the start of fillBuffer, before the first sample;
\* the control core writes only fields of the pending block and only ever
\* sets the flag.
C4_SwapOwnership ==
    [][/\ (activeState' # activeState \/ pendingState' # pendingState
            \/ (swapPending /\ ~swapPending'))
          => (dds.pc \in {"swapActive", "swapPending", "clear"} /\ dds.buf = <<>>
              /\ ~CtlStep)
       /\ CtlStep
          => (/\ blk'[activeState] = blk[activeState]
              /\ activeState' = activeState /\ pendingState' = pendingState
              /\ (swapPending' # swapPending => swapPending'))]_vars

\* the frequency and amplitude last written for the DDS
PublishedFreq == blk[pendingState].frequency
PublishedAmp == blk[pendingState].amplitude

\* C5: the state becomes Starting only from Stopped: no call of start, stop,
\* toggleStartStop, toggleStandby or update made after boot moves the state
\* to Starting from Standby or from Stopping.
C5_StartingOnlyFromStopped ==
    [][(Booted /\ m'.state = STATE_STARTING /\ m.state # STATE_STARTING)
       => m.state = STATE_STOPPED]_vars

\* the state the specification gives the controller after boot
BootState(c) ==
    IF ~c.autoBoot THEN STATE_STANDBY
    ELSE IF ~c.autoStart THEN STATE_STOPPED
    ELSE STATE_STARTING

\* C6: after the constructor and begin() the state is Standby when autoBoot
\* is false, Stopped when autoBoot is true and autoStart false, Starting
\* when both are true.
C6_InitialState ==
    [][(boot = "constructed" /\ boot' # "constructed") => m'.state = BootState(cfg)]_vars

\* the brake duration has elapsed since the stop() that entered Stopping
BrakeElapsed == now - hist.tStop >= MsOfTenths(cfg.brakeDuration)

\* C7: Stopping is entered only from Running or Starting, and the first
\* update() at which the brake duration has elapsed since the stop() that
\* entered Stopping moves the state to Stopped, whatever stop() calls were
\* made in between.
C7_StoppingCompletes ==
    [][/\ (m'.state = STATE_STOPPING /\ m.state # STATE_STOPPING)
          => m.state \in {STATE_RUNNING, STATE_STARTING}
       /\ (Update /\ m.state = STATE_STOPPING /\ BrakeElapsed)
          => m'.state = STATE_STOPPED]_vars

\* C8: at the update() that completes braking the DDS is disabled, the
\* published amplitude is 0, the mute relays are muted if linked to
\* start/stop and the published frequency is |targetFreq| and positive.
C8_BrakeCompletion ==
    [][(Update /\ m.state = STATE_STOPPING /\ m'.state = STATE_STOPPED)
       => /\ ~enabled'
          /\ PublishedAmp' = 0
          /\ cfg.muteRelayLinkStartStop => \A p \in MutePins : ~pins'[p]
          /\ PublishedFreq' = Abs(m'.targetFreq)
          /\ PublishedFreq' > 0]_vars

\* the soft-start duration of the current profile has elapsed since the
\* start() that entered Starting
SoftStartElapsed ==
    now - hist.tStart >= MsOfTenths(getCurrentSpeedSettings(cfg).softStartDuration)

\* r + (1 - r) q for r = FDA / 100 and q = clamp(freq / target, 0, 1), in 1/10000
FdaScale(fda, freq, target) ==
    LET r == (fda * AmpScale) \div 100
        q0 == IF target > 1 THEN (freq * AmpScale) \div target ELSE 0
        q == IF q0 > AmpScale THEN AmpScale ELSE IF q0 < 0 THEN 0 ELSE q0
    IN r + ((AmpScale - r) * q) \div AmpScale

CompletionAmp ==
    IF cfg.freqDependentAmplitude > 0
    THEN (m.targetAmp
            * FdaScale(cfg.freqDependentAmplitude, PublishedFreq, m.targetFreq))
         \div AmpScale
    ELSE m.targetAmp

KickFreq == m.targetFreq * getCurrentSpeedSettings(cfg).startupKick
KickHoldMs == MsOfSec(getCurrentSpeedSettings(cfg).startupKickDuration)
KickRampMs == MsOfTenths(getCurrentSpeedSettings(cfg).startupKickRampDuration)

\* the frequency of the kick profile at e ms after start()
KickProfile(e) ==
    IF e < KickHoldMs THEN KickFreq
    ELSE IF e - KickHoldMs < KickRampMs
    THEN KickFreq - ((KickFreq - m.targetFreq) * (e - KickHoldMs)) \div KickRampMs
    ELSE m.targetFreq

\* C10: after start() with a kick multiplier above 1, every update() while
\* Starting or Running publishes the frequency of the kick profile: the kick
\* frequency during the hold, the linear ramp after it, then targetFreq.
C10_StartupKick ==
    [][(Update /\ m.state \in {STATE_STARTING, STATE_RUNNING}
          /\ getCurrentSpeedSettings(cfg).startupKick > 1)
       => PublishedFreq' = KickProfile(now - hist.tStart)']_vars

\* the pitch-adjusted nominal frequency of speed mode
PitchedNominal(mode) ==
    cfg.speeds[mode].frequency
      + (cfg.speeds[mode].frequency * pitch) \div (100 * PitchScale)

\* x lies between a and b
Between(x, a, b) == (a <= x /\ x <= b) \/ (b <= x /\ x <= a)

\* C11: a speed change while Running with smooth switching starts a ramp at
\* the frequency published at that moment towards the pitch-adjusted nominal
\* frequency of the new speed, without leaving Running; every update() until
\* switchRampDuration has elapsed publishes the linear interpolation, and the
\* value it publishes in the middle of the tick lies between start and target
\* and is not the target; the update() that ends the ramp publishes the
\* target.
C11_SmoothSpeedSwitch ==
    [][/\ (SetSpeed /\ m.state = STATE_RUNNING /\ cfg.smoothSwitching
             /\ m'.currentSpeedMode # m.currentSpeedMode)
          => /\ m'.state = STATE_RUNNING
             /\ PublishedFreq' = PublishedFreq
             /\ m'.isSpeedRamping
             /\ m'.rampStartFreq = PublishedFreq
             /\ m'.rampTargetFreq = PitchedNominal(m'.currentSpeedMode)
             /\ m'.rampStartTime = now
             /\ m'.rampDuration = MsOfSec(cfg.switchRampDuration)
       /\ (Update /\ m.state = STATE_RUNNING /\ m.isSpeedRamping)
          => LET elapsed == now - m.rampStartTime
                 midTick == WfGetFrequency(runningPitch(World, now))
             IN /\ m'.state = STATE_RUNNING
                /\ IF elapsed >= m.rampDuration
                   THEN PublishedFreq' = m.rampTargetFreq
                   ELSE /\ PublishedFreq' = m.rampStartFreq
                             + ((m.rampTargetFreq - m.rampStartFreq) * elapsed)
                                 \div m.rampDuration
                        /\ Between(midTick, m.rampStartFreq, m.rampTargetFreq)
                        /\ midTick # m.rampTargetFreq]_vars

\* the delay and the amplitude of the reduction, of the current profile
ReduceDelayMs == MsOfSec(getCurrentSpeedSettings(cfg).amplitudeDelay)
ReducedAmp == (m.targetAmp * getCurrentSpeedSettings(cfg).reducedAmplitude) \div 100

\* C12: the amplitude reduction is applied once per start.  The tick that
\* enters Running records the epoch; the first update() in Running at least
\* the delay after it sets the latch and publishes reducedAmplitude / 100 x
\* targetAmp, no update() before it changes the published amplitude; once
\* latched, update() leaves the amplitude alone, and the latch is cleared
\* only by the call that enters Starting.
C12_AmplitudeReductionOnce ==
    [][/\ (m.state # STATE_RUNNING /\ m'.state = STATE_RUNNING)
          => (m'.ampReductionStartTime = now /\ ~m'.isReducedAmp)
       /\ (m.state = STATE_RUNNING /\ m'.state = STATE_RUNNING)
          => m'.ampReductionStartTime = m.ampReductionStartTime
       /\ (Update /\ m.state = STATE_RUNNING /\ ~m.isReducedAmp)
          => IF now - m.ampReductionStartTime >= ReduceDelayMs
             THEN m'.isReducedAmp /\ PublishedAmp' = ReducedAmp /\ m'.currentAmp = ReducedAmp
             ELSE ~m'.isReducedAmp /\ PublishedAmp' = PublishedAmp
       /\ (Update /\ m.state = STATE_RUNNING /\ m.isReducedAmp)
          => (m'.isReducedAmp /\ PublishedAmp' = PublishedAmp)
       /\ (~m.isReducedAmp /\ m'.isReducedAmp)
          => (m.state = STATE_RUNNING
              /\ now - m.ampReductionStartTime >= ReduceDelayMs)
       /\ (m.isReducedAmp /\ ~m'.isReducedAmp)
          => (m.state # STATE_STARTING /\ m'.state = STATE_STARTING)]_vars

\* update() has applied the reduction, a positive delay after Running was
\* entered
C12_Witness_Reduced ==
    /\ boot = "updated"
    /\ m.state = STATE_RUNNING
    /\ m.isReducedAmp
    /\ ReduceDelayMs > 0
    /\ now - m.ampReductionStartTime = ReduceDelayMs
    /\ PublishedAmp = ReducedAmp
    /\ ReducedAmp < m.targetAmp

\* the gap between two toggles of the pulse brake
PulseGapMs == MsOfTenths(cfg.brakePulseGap)

\* C13: with brake mode Pulse the call that enters Stopping publishes
\* frequency -targetFreq and amplitude targetAmp; while Stopping, absent
\* speed changes, the published frequency stays -targetFreq, the published
\* amplitude is targetAmp or 0, and it changes only at an update() at least
\* brakePulseGap after the previous toggle.
C13_PulseBrake ==
    [][cfg.brakeMode = BRAKE_PULSE
       => /\ (m.state # STATE_STOPPING /\ m'.state = STATE_STOPPING)
             => /\ PublishedFreq' = -m'.targetFreq
                /\ PublishedAmp' = m'.targetAmp
                /\ m'.brakePulseLastToggle = now
          /\ (m.state = STATE_STOPPING /\ m'.state = STATE_STOPPING
                /\ m'.currentSpeedMode = m.currentSpeedMode)
             => /\ PublishedFreq' = -m'.targetFreq
                /\ PublishedAmp' \in {m'.targetAmp, 0}
                /\ PublishedAmp' # PublishedAmp
                   => /\ Update
                      /\ now - m.brakePulseLastToggle >= PulseGapMs
                      /\ m'.brakePulseLastToggle = now]_vars

\* C14: with brake mode Off the call that enters Stopping leaves the
\* published amplitude and frequency as they are, and while Stopping the
\* published amplitude never increases (so it never exceeds the amplitude in
\* effect when stop() was called) and the published frequency is unchanged.
C14_BrakeOffRampDown ==
    [][cfg.brakeMode = BRAKE_OFF
       => /\ (m.state # STATE_STOPPING /\ m'.state = STATE_STOPPING)
             => /\ PublishedAmp' = PublishedAmp
                /\ PublishedFreq' = PublishedFreq
          /\ (m.state = STATE_STOPPING /\ m'.state = STATE_STOPPING)
             => /\ PublishedAmp' <= PublishedAmp
                /\ PublishedFreq' = PublishedFreq]_vars

\* the mute channels a step activates, and the channels before a channel
Activated == {p \in MutePins : ~pins[p] /\ pins'[p]}
Lower(p) ==
    IF p = "A" THEN {} ELSE IF p = "B" THEN {"A"}
    ELSE IF p = "C" THEN {"A", "B"} ELSE {"A", "B", "C"}
StaggerMs == 100

\* C15: a step activates at most one mute channel; a channel is activated
\* only by update(), while the relays are unmuted, after all the channels
\* before it, and at least 100 ms after the unmute command and after the
\* previous activation (_relayStageTime never decreases and is the time of
\* the latest of them); after a mute command all channels are inactive, and
\* update() never unmutes by itself.
C15_RelayStaircase ==
    [][/\ Cardinality(Activated) <= 1
       /\ \A p \in Activated :
            /\ Update
            /\ m.relaysActive
            /\ \A q \in Lower(p) : pins[q]
            /\ now - m.relayStageTime >= StaggerMs
            /\ m'.relayStageTime = now
       /\ m'.relayStageTime >= m.relayStageTime
       /\ ~m'.relaysActive => \A p \in MutePins : ~pins'[p]
       /\ (~m.relaysActive /\ m'.relaysActive) => ~Update]_vars

\* all four channels have been activated by the staircase
C15_Witness_AllActive ==
    /\ m.relaysActive
    /\ m.relayStage = 4
    /\ \A p \in MutePins : pins[p]

\* C16: before powerOnRelayDelay seconds have elapsed since the
\* construction of the controller no mute channel is active.
C16_PowerOnGrace ==
    now < MsOfSec(cfg.powerOnRelayDelay) => \A p \in MutePins : ~pins[p]

\* a start() linked to the relays was issued during the power-on delay and
\* update() has run at a later instant of the delay
C16_Witness_StartInGrace ==
    /\ cfg.powerOnRelayDelay > 0
    /\ cfg.muteRelayLinkStartStop
    /\ m.state = STATE_RUNNING
    /\ boot = "updated"
    /\ 0 < now /\ now < MsOfSec(cfg.powerOnRelayDelay)
    /\ ~m.relaysActive

\* C17: a report with critical = true leaves all four mute channels
\* inactive, in every state and for both values of errorDisplayEnabled.
C17_CriticalReportMutes ==
    [][Report(TRUE) => \A p \in MutePins : ~pins'[p]]_vars

\* C18: whenever the controller is in Standby the DDS is disabled.
C18_StandbyDisablesDds ==
    m.state = STATE_STANDBY => ~enabled

\* the speed profile in use
ActiveProfile == getCurrentSpeedSettings(cfg)

\* C19: in Running, the frequency that update() derives and publishes lies
\* within [minFrequency, maxFrequency] of the active speed profile.
C19_FrequencyWithinLimits ==
    [][(Update /\ m'.state = STATE_RUNNING)
       => /\ ActiveProfile.minFrequency <= m'.targetFreq
          /\ m'.targetFreq <= ActiveProfile.maxFrequency
          /\ ActiveProfile.minFrequency <= PublishedFreq'
          /\ PublishedFreq' <= ActiveProfile.maxFrequency]_vars

\* C20: the pitch range is one of 10, 20, 30, 40, 50 and the pitch is
\* within [-range, +range].
C20_PitchWithinRange ==
    Booted => /\ m.pitchRange \in {10, 20, 30, 40, 50}
              /\ -m.pitchRange * PitchScale <= pitch
              /\ pitch <= m.pitchRange * PitchScale

\* C21: the session and total runtime counters, which start at 0, never
\* exceed the time spent in Running.
C21_RuntimeOnlyWhileRunning ==
    /\ MsOfSec(cfg.totalRuntime) <= hist.ranMs
    /\ MsOfSec(rt.sessionRuntime) <= hist.ranMs

\* float comparison: a <= b, false when an operand is not a number
FLessEq(a, b) == a # NaN /\ b # NaN /\ a <= b

\* what validate() is to establish
ValidData(d) ==
    /\ d.maxAmplitude <= 100
    /\ \A i \in DOMAIN d.speeds :
         /\ FLessEq(d.speeds[i].minFrequency, d.speeds[i].frequency)
         /\ FLessEq(d.speeds[i].frequency, d.speeds[i].maxFrequency)
         /\ \A p \in 1..4 : /\ 0 <= d.speeds[i].phaseOffset[p]
                            /\ d.speeds[i].phaseOffset[p] < 360 * Deg

\* C22: after validate() every speed satisfies min <= nominal <= max, every
\* phase offset is in [0, 360) and the maximum amplitude is at most 100.
C22_ValidateResult ==
    [][Validate => ValidData(persist'.data)]_vars

\* a speed profile of the live configuration satisfies the invariants
ValidProfile(sp) ==
    /\ sp.minFrequency <= sp.frequency
    /\ sp.frequency <= sp.maxFrequency
    /\ \A p \in 1..4 : 0 <= sp.phaseOffset[p] /\ sp.phaseOffset[p] < 360

\* C23: in every state after setup() every speed profile of the live
\* configuration satisfies min <= nominal <= max and has its phase offsets,
\* which applySettings() hands to the DDS, in [0, 360).
C23_LiveConfigValid ==
    Booted => \A i \in DOMAIN cfg.speeds : ValidProfile(cfg.speeds[i])

\* C24: the phase offset word of channel 0 is 0 in both parameter blocks.
C24_ChannelZeroReference ==
    \A b \in Blocks : blk[b].po0 = 0

\* the compare values of the words of the half refilled last
CompareValues ==
    UNION {{Low16(gen.slice0[i]), High16(gen.slice0[i]),
            Low16(gen.slice1[i]), High16(gen.slice1[i])} : i \in DOMAIN gen.slice0}

\* C25: the words a refill writes while the DDS is disabled carry the centre
\* compare value 512 in both 16-bit halves of the slice-0 and slice-1 words.
C25_DisabledCentre ==
    gen.filled = "zeros" => CompareValues = {512}

\* C26: every compare value an enabled refill packs lies in 0 .. 1023, and
\* it is 512 + sample itself: the 16-bit conversion did not wrap and the
\* clamp did not replace it.
C26_CompareInRange ==
    gen.filled = "samples" =>
        /\ CompareValues \subseteq 0..1023
        /\ \A i \in DOMAIN gen.samples : \A ch \in 1..4 :
             /\ 0 <= 512 + gen.samples[i][ch]
             /\ 512 + gen.samples[i][ch] <= 1023

\* an enabled refill at full amplitude through a filter, with history from
\* earlier refills, came within 1 % of the highest compare value and wrote a
\* value below the centre
C26_Witness_FilteredPeak ==
    /\ gen.filled = "samples"
    /\ gen.fills = MaxFills
    /\ blk[activeState].filterType # FILTER_NONE
    /\ blk[activeState].amplitude = AmpScale
    /\ \E v \in CompareValues : v > 1012
    /\ \E v \in CompareValues : v < 512

\* the generator with the IIR state and the FIR history cleared
resetFilters(g) ==
    [g EXCEPT !.iirPrev = GenIdle.iirPrev, !.firBuffer = GenIdle.firBuffer]

\* C27: a refill whose swap promotes a block with another filter kind than
\* that of the previously active block synthesises its samples from a reset
\* IIR state and FIR history.
C27_FilterResetOnKindChange ==
    [][(/\ FillBuffer
        /\ enabled
        /\ swapPending
        /\ blk[pendingState].filterType # blk[activeState].filterType)
       => gen'.samples =
            sampleLoop([resetFilters(gen) EXCEPT !.samples = <<>>, !.slice0 = <<>>,
                                                 !.slice1 = <<>>],
                       blk[pendingState], 0).samples]_vars

\* the last save() wrote the file and load() followed it
RoundTripDone == persist.trip = "loaded"
\* load() followed the last save(), which may have failed to open the file
RoundTripTried == persist.trip \in {"loaded", "loadedUnsaved"}

\* the invariants stated for validate(), with the schema version
StatedInvariants(d) ==
    /\ ValidData(d)
    /\ d.schemaVersion = SETTINGS_SCHEMA_VERSION

\* all that validate() enforces
ValidateInvariants(d) ==
    /\ StatedInvariants(d)
    /\ d.currentSpeed <= SPEED_78
    /\ \A i \in DOMAIN d.speeds : d.speeds[i].softStartDuration >= 0

C29_StartupOrdering ==
    [][/\ sys'.waveformBegun => sys'.systemInitialized
       /\ sys.systemInitialized => sys'.systemInitialized
       /\ SetInitialized => (/\ ~sys.systemInitialized
                             /\ sys.loaded
                             /\ sys.motorBegun)]_vars

\* C30: the amplitude published to the DDS is at most maxAmplitude / 100 of
\* the current configuration.
C30_AmplitudeCeiling ==
    Booted => blk[pendingState].amplitude * 100 <= cfg.maxAmplitude * AmpScale

\* C31: the auto standby of UserInterface::update switches the controller to
\* Standby only from Stopped, never from Starting, Running or Stopping.
C31_AutoStandbyOnlyStopped ==
    [][(UiUpdate /\ m.state # STATE_STANDBY /\ m'.state = STATE_STANDBY)
         => m.state = STATE_STOPPED]_vars

\* the block b holds the filter and the phase offsets of the profile sp
ProfileConfigured(b, sp) == ApplyWrites(b, WritesConfigure(sp)) = b
\* the block b holds the frequency f and its phase increment
FrequencyPublished(b, f) == ApplyWrites(b, WritesSetFrequency(f)) = b

\* C32: after begin() with a boot speed of 0, 1 or 2 the selected speed is
\* the boot speed, and the frequency, the phase offsets and the filter
\* published to the DDS are those of that speed's profile.
C32_BootSpeedApplied ==
    [][(Begin /\ cfg.bootSpeed <= 2) =>
         /\ m'.currentSpeedMode = cfg.bootSpeed
         /\ m'.targetFreq = cfg.speeds[cfg.bootSpeed].frequency
         /\ FrequencyPublished(blk'[pendingState], cfg.speeds[cfg.bootSpeed].frequency)
         /\ ProfileConfigured(blk'[pendingState], cfg.speeds[cfg.bootSpeed])]_vars

\* the frequency a call of setSpeed aims at
SwitchTarget(mm) == IF mm.isSpeedRamping THEN mm.rampTargetFreq ELSE mm.targetFreq

\* C34: setSpeed(mode) with another mode than the current one aims at the
\* frequency of that mode's profile (the pitch is 0 here) and publishes that
\* profile's phase offsets and filter.
C34_SetSpeedUsesNewProfile ==
    [][(SetSpeed /\ m'.currentSpeedMode # m.currentSpeedMode) =>
         /\ SwitchTarget(m') = cfg.speeds[m'.currentSpeedMode].frequency
         /\ ProfileConfigured(blk'[pendingState], cfg.speeds[m'.currentSpeedMode])]_vars

\* start() has called setEnabled(true) and the soft start has not raised
\* the amplitude yet
SilentWindow(e, mm, pc) ==
    e /\ mm.state = STATE_STARTING /\ mm.currentAmp = 0 /\ pc # "setEnabled"

\* C33: from the moment start() enables the DDS until the soft start raises
\* the amplitude, every half the DDS core synthesises is computed with
\* amplitude 0, whatever amplitude the blocks were left with.
C33_SilentStart ==
    [][(FillBuffer /\ SilentWindow(enabled, m, ctl.pc)) => blk'[activeState'].amplitude = 0]_vars

\* the motor is in Starting or Running since an instant that leaves the
\* staircase of the relays the four iterations of loop() it needs
UnmuteDue ==
    /\ m.state \in {STATE_STARTING, STATE_RUNNING}
    /\ hist.tStart + 4 * TickMs <= MaxTicks * TickMs

\* C35: after a start() with the mute relays linked to start/stop, while the
\* motor stays in Starting or Running and update() keeps being called, all
\* four mute relays are eventually active, also when start() was called
\* during the power-on delay.
C35_UnmuteHonoured ==
    UnmuteDue ~> ((\A p \in MutePins : pins[p]) \/ ~UnmuteDue)

\* C36: in Standby with the relays linked to standby the standby relay and
\* all four mute relays are inactive; a standby relay driven active by an
\* unmute is driven inactive again when the controller enters Standby.
C36_StandbyRelaysOff ==
    (m.state = STATE_STANDBY /\ cfg.muteRelayLinkStandby) =>
        (~pins["STANDBY"] /\ \A p \in MutePins : ~pins[p])

\* C37: totalRuntime never decreases in a step that is not a reset of the
\* defaults: loadPreset, load (menu Cancel) and the migration of a version
\* 2 or 3 file do not roll it back.
C37_TotalRuntimeMonotonic ==
    [][(Load /\ loadResets(persist))
         \/ persist'.data.totalRuntime >= persist.data.totalRuntime]_vars

\* C38: whatever path load() takes (a file of the current version, the
\* migration of a version 2 or 3 file, a newer version, a short or missing
\* file), the configuration in memory on return has min <= nominal <= max
\* for every speed, phase offsets in [0, 360), a maximum amplitude of at
\* most 100 and a valid current speed.
C38_LoadEstablishesInvariants ==
    [][(Load \/ LoadShort) =>
         (ValidData(persist'.data) /\ persist'.data.currentSpeed <= SPEED_78)]_vars

C40_DisabledRefillFrame ==
    [][(FillDone /\ ~enabled) =>
         /\ dma'.half[1 - dma.writing] = dma.half[1 - dma.writing]
         /\ dma'.half[dma.writing] = <<[i \in 1..BufLen |-> 0], [i \in 1..BufLen |-> 0]>>
         /\ gen'.phaseAcc = gen.phaseAcc
         /\ gen'.iirPrev = gen.iirPrev
         /\ gen'.firBuffer = gen.firBuffer
         /\ activeState' = activeState
         /\ pendingState' = pendingState
         /\ blk' = blk
         /\ swapPending' = swapPending]_vars

\* a half was refilled with zeros while the DDS was disabled and a publish
\* was pending, the other half still holding the samples of a refill made
\* while it was enabled
C40_Witness_ZerosBesideSamples ==
    /\ ~enabled
    /\ swapPending
    /\ dma.writing = -1
    /\ gen.filled = "zeros"
    /\ dma.lastFilledBuffer = 0
    /\ dma.half[0] = <<[i \in 1..BufLen |-> 0], [i \in 1..BufLen |-> 0]>>
    /\ \E i \in 1..BufLen : dma.half[1][1][i] # 0

====
